---- MODULE Spec2Model ----
(***************************************************************************)
(* k8smultiarcher: a mutating admission webhook that adds node tolerations *)
(* to Pods and DaemonSets for every configured platform that all of the    *)
(* workload's container images support.                                    *)
(*                                                                         *)
(* The model follows admission.go, config.go, image.go, cache.go and       *)
(* registry_auth.go.  External capabilities (encoding/json on the          *)
(* Kubernetes API types, the jsonpatch diff, the registry client) are      *)
(* modelled by what they do to the data the webhook handles.               *)
(***************************************************************************)
EXTENDS Integers, Sequences, FiniteSets, TLC

VARIABLES
    config,      \* platformConfig: the loaded PlatformTolerationConfig.Mappings
    cache,       \* the process-wide Cache: key -> [value, ttl]
    kubeClient,  \* kubeClientOnce/kubeClient/kubeClientErr: "uninit" | "ok" | "err"
    last         \* the last call handled: its input, its result and what it did

vars == <<config, cache, kubeClient, last>>

----------------------------------------------------------------------------
(* Bounds of the model *)

MaxMappings == 2      \* mappings in a configuration
MaxContainers == 2    \* containers of a workload, over all three kinds
MaxTolerations == 1   \* tolerations a submitted workload already carries

(* Program constants, in seconds *)
cacheSuccessTTL == 86400
cacheFailureTTL == 300
cacheNegativeTTL == 21600

----------------------------------------------------------------------------
(* Generic helpers on sequences *)

Range(s) == {s[i] : i \in 1..Len(s)}

Contains(s, x) == \E i \in 1..Len(s) : s[i] = x

SeqsUpTo(S, n) == UNION {[1..k -> S] : k \in 0..n}

IsPrefix(s, t) == Len(s) <= Len(t) /\ \A i \in 1..Len(s) : s[i] = t[i]

NoDuplicates(s) == \A i, j \in 1..Len(s) : s[i] = s[j] => i = j

----------------------------------------------------------------------------
(* Data: platforms, images, tolerations *)

Platforms == {"linux/arm64", "linux/amd64"}

(* The registry: what manifest inspection finds for each image reference.  *)
(* "list" is a multi-platform manifest list, "single" a plain manifest,    *)
(* "missing" a reference the registry does not serve.                      *)
Registry ==
    [img \in {"nginx:latest", "armapp:v1", "legacy:1"} |->
        CASE img = "nginx:latest" -> [kind |-> "list", platforms |-> {"linux/arm64", "linux/amd64"}]
          [] img = "armapp:v1"    -> [kind |-> "list", platforms |-> {"linux/arm64"}]
          [] OTHER                -> [kind |-> "single", platforms |-> {}]]

Images == DOMAIN Registry

(* corev1.Toleration.  TolerationSeconds is a *int64: 0 stands for the nil *)
(* pointer, n > 0 for a pointer to n.  Go's == on the struct compares the  *)
(* pointer, and a configured toleration always has nil, so a configured    *)
(* toleration equals an element exactly when the element's four strings    *)
(* agree and its TolerationSeconds is nil too: record equality.            *)
Toleration(k, v, o, e, s) ==
    [Key |-> k, Value |-> v, Operator |-> o, Effect |-> e, TolerationSeconds |-> s]

TolArm == Toleration("arch", "arm64", "Equal", "NoSchedule", 0)
TolAmd == Toleration("arch", "amd64", "Equal", "NoExecute", 0)

(* MultiarchToleration, the legacy single toleration *)
MultiarchToleration == Toleration("k8smultiarcher", "arm64Supported", "Equal", "NoSchedule", 0)

MappedTolerations == {TolArm, TolAmd}

(* PlatformTolerationMapping *)
Mappings == [Platform : Platforms, Toleration : MappedTolerations]

Configs == {c \in SeqsUpTo(Mappings, MaxMappings) : Len(c) >= 1}

----------------------------------------------------------------------------
(* encoding/json on corev1.Toleration: every field is omitempty.  A JSON   *)
(* toleration is a record holding only the fields that are present.        *)

TolFields == {"key", "value", "operator", "effect", "tolerationSeconds"}

TolField(t, f) ==
    CASE f = "key" -> t.Key
      [] f = "value" -> t.Value
      [] f = "operator" -> t.Operator
      [] f = "effect" -> t.Effect

MarshalToleration(t) ==
    LET present == {f \in TolFields :
                       IF f = "tolerationSeconds" THEN t.TolerationSeconds # 0
                       ELSE TolField(t, f) # ""}
    IN  [f \in present |-> IF f = "tolerationSeconds" THEN t.TolerationSeconds ELSE TolField(t, f)]

UnmarshalToleration(j) ==
    LET str(f) == IF f \in DOMAIN j THEN j[f] ELSE ""
    IN  Toleration(str("key"), str("value"), str("operator"), str("effect"),
                   IF "tolerationSeconds" \in DOMAIN j THEN j["tolerationSeconds"] ELSE 0)

MarshalTolerations(ts) == [i \in 1..Len(ts) |-> MarshalToleration(ts[i])]
UnmarshalTolerations(js) == [i \in 1..Len(js) |-> UnmarshalToleration(js[i])]

----------------------------------------------------------------------------
(* config.go *)

GetPlatforms(c) == [i \in 1..Len(c) |-> c[i].Platform]

(* a lookup that returns every configured toleration, supported or not *)
GetTolerationsForPlatformsAll(c, supportedPlatforms) ==
    [i \in 1..Len(c) |-> c[i].Toleration]

(* a lookup that returns the matching tolerations last mapping first *)
GetTolerationsForPlatformsReversed(c, supportedPlatforms) ==
    LET matching == SelectSeq(c, LAMBDA mapping : Contains(supportedPlatforms, mapping.Platform))
    IN  [i \in 1..Len(matching) |-> matching[Len(matching) + 1 - i].Toleration]

GetTolerationsForPlatforms(c, supportedPlatforms) ==
    LET matching == SelectSeq(c, LAMBDA mapping : Contains(supportedPlatforms, mapping.Platform))
    IN  [i \in 1..Len(matching) |-> matching[i].Toleration]

----------------------------------------------------------------------------
(* cache.go: the in-memory cache.  It holds at most size entries; an entry *)
(* keeps the value, the TTL it was stored with (0: no expiry) and the time *)
(* since it was stored.                                                    *)

cacheSizeDefault == 100000

NewInMemoryCache(cacheSize) ==
    [size |-> cacheSize, entries |-> [k \in {} |-> [value |-> FALSE, ttl |-> 0, age |-> 0]]]

EmptyCache == NewInMemoryCache(cacheSizeDefault)

(* SetWithExpire: the entry is gone once its TTL has passed *)
Expired(entry) == entry.ttl > 0 /\ entry.age >= entry.ttl

(* a Get that finds the key and returns the zero value *)
CacheGetZeroValue(c, key) ==
    IF key \in DOMAIN c.entries /\ ~Expired(c.entries[key]) THEN [val |-> FALSE, ok |-> TRUE]
    ELSE [val |-> FALSE, ok |-> FALSE]

(* a Get that never looks at the expiry *)
CacheGetNoExpiry(c, key) ==
    IF key \in DOMAIN c.entries THEN [val |-> c.entries[key].value, ok |-> TRUE]
    ELSE [val |-> FALSE, ok |-> FALSE]

(* a Get that reports a stored false as not found *)
CacheGetTrueOnly(c, key) ==
    IF key \in DOMAIN c.entries /\ ~Expired(c.entries[key]) /\ c.entries[key].value
    THEN [val |-> TRUE, ok |-> TRUE]
    ELSE [val |-> FALSE, ok |-> FALSE]

(* NewRedisCache: the server holds text; reachable tells whether a request *)
(* to it succeeds within its timeout                                       *)
NewRedisCache(redisAddr) ==
    [addr |-> redisAddr, reachable |-> TRUE,
     entries |-> [k \in {} |-> [raw |-> "", ttl |-> 0, age |-> 0]]]

IsRedisCache(c) == "addr" \in DOMAIN c

(* an entry of the in-memory cache whose value is not a bool carries the   *)
(* name of its type                                                        *)
IsBool(entry) == "typeName" \notin DOMAIN entry

(* strconv.ParseBool, which BoolCmd.Bool applies to the stored text *)
ParseBool(raw) ==
    IF raw \in {"1", "t", "T", "TRUE", "true", "True"} THEN [err |-> FALSE, val |-> TRUE]
    ELSE IF raw \in {"0", "f", "F", "FALSE", "false", "False"} THEN [err |-> FALSE, val |-> FALSE]
    ELSE [err |-> TRUE, val |-> FALSE]

(* an in-memory Get that returns what it finds as the zero value of bool *)
InMemoryCacheGetUnchecked(c, key) ==
    IF key \in DOMAIN c.entries /\ ~Expired(c.entries[key])
    THEN [val |-> c.entries[key].value, ok |-> TRUE]
    ELSE [val |-> FALSE, ok |-> FALSE]

(* InMemoryCache.Get *)
InMemoryCacheGet(c, key) ==
    IF key \in DOMAIN c.entries /\ ~Expired(c.entries[key])
    THEN IF IsBool(c.entries[key]) THEN [val |-> c.entries[key].value, ok |-> TRUE]
         ELSE [val |-> FALSE, ok |-> FALSE]
    ELSE [val |-> FALSE, ok |-> FALSE]

(* a Redis Get that reports a failed request as a stored false *)
RedisCacheGetErrorAsFalse(c, key) ==
    IF ~c.reachable THEN [val |-> FALSE, ok |-> TRUE]
    ELSE IF key \notin DOMAIN c.entries \/ Expired(c.entries[key])
    THEN [val |-> FALSE, ok |-> FALSE]
    ELSE LET b == ParseBool(c.entries[key].raw)
         IN  IF b.err THEN [val |-> FALSE, ok |-> FALSE] ELSE [val |-> b.val, ok |-> TRUE]

(* RedisCache.Get: any error of the request or of the conversion is a miss *)
RedisCacheGet(c, key) ==
    IF ~c.reachable THEN [val |-> FALSE, ok |-> FALSE]
    ELSE IF key \notin DOMAIN c.entries \/ Expired(c.entries[key])
    THEN [val |-> FALSE, ok |-> FALSE]
    ELSE LET b == ParseBool(c.entries[key].raw)
         IN  IF b.err THEN [val |-> FALSE, ok |-> FALSE] ELSE [val |-> b.val, ok |-> TRUE]

(* Cache.Get of the backend in use *)
CacheGet(c, key) == IF IsRedisCache(c) THEN RedisCacheGet(c, key) ELSE InMemoryCacheGet(c, key)

(* the entry a full cache gives up for a new key: the replacement policy   *)
(* is the cache library's; here it is an entry that has been held longest  *)
Victim(c) ==
    CHOOSE k \in DOMAIN c.entries : \A o \in DOMAIN c.entries : c.entries[o].age <= c.entries[k].age

(* RedisCache.Set: a bool is sent as "1" or "0"; a failed request is logged *)
RedisCacheSet(c, key, value, ttl) ==
    IF ~c.reachable THEN c
    ELSE [c EXCEPT !.entries = [k \in DOMAIN c.entries \cup {key} |->
                                   IF k = key
                                   THEN [raw |-> IF value THEN "1" ELSE "0", ttl |-> ttl, age |-> 0]
                                   ELSE c.entries[k]]]

(* InMemoryCache.Set *)
(* a Set that keeps the entry a key already has *)
InMemoryCacheSetIfAbsent(c, key, value, ttl) ==
    IF key \in DOMAIN c.entries
    THEN c
    ELSE [c EXCEPT !.entries = [k \in DOMAIN c.entries \cup {key} |->
                                   IF k = key THEN [value |-> value, ttl |-> ttl, age |-> 0]
                                   ELSE c.entries[k]]]

InMemoryCacheSet(c, key, value, ttl) ==
    LET kept == IF key \notin DOMAIN c.entries /\ Cardinality(DOMAIN c.entries) >= c.size
                THEN DOMAIN c.entries \ {Victim(c)}
                ELSE DOMAIN c.entries
    IN  [c EXCEPT !.entries = [k \in kept \cup {key} |->
                                  IF k = key THEN [value |-> value, ttl |-> ttl, age |-> 0]
                                  ELSE c.entries[k]]]

(* Cache.Set of the backend in use *)
CacheSet(c, key, value, ttl) ==
    IF IsRedisCache(c) THEN RedisCacheSet(c, key, value, ttl) ELSE InMemoryCacheSet(c, key, value, ttl)

(* time passes *)
CacheAfter(c, d) ==
    [c EXCEPT !.entries = [k \in DOMAIN c.entries |-> [c.entries[k] EXCEPT !.age = @ + d]]]

----------------------------------------------------------------------------
(* image.go.  A call carries st = [cache, trace, calls]: the cache as it   *)
(* stands, the external operations done so far and the results of the      *)
(* DoesImageSupportPlatform calls made so far.                             *)

(* a key that leaves the platform out *)
CacheKeyNameOnly(name, platform) == name

(* a key that leaves the image out *)
CacheKeyPlatformOnly(name, platform) == platform

CacheKey(name, platform) == name \o ":" \o platform

(* GetManifest: an error unless the reference resolves to a manifest list *)
GetManifest(name, hosts) ==
    IF name \in DOMAIN Registry /\ Registry[name].kind = "list"
    THEN [err |-> FALSE, platforms |-> Registry[name].platforms]
    ELSE [err |-> TRUE, platforms |-> {}]

(* a verdict that takes an inspection that failed for support *)
VerdictOptimistic(m, platform) ==
    IF m.err THEN [val |-> TRUE, ttl |-> cacheSuccessTTL]
    ELSE IF platform \in m.platforms THEN [val |-> TRUE, ttl |-> cacheSuccessTTL]
    ELSE [val |-> FALSE, ttl |-> cacheNegativeTTL]

(* a verdict that keeps a failed inspection as long as a definite no *)
VerdictLongFailure(m, platform) ==
    IF m.err THEN [val |-> FALSE, ttl |-> cacheNegativeTTL]
    ELSE IF platform \in m.platforms THEN [val |-> TRUE, ttl |-> cacheSuccessTTL]
    ELSE [val |-> FALSE, ttl |-> cacheNegativeTTL]

(* what DoesImageSupportPlatform returns and stores after a miss, given    *)
(* what GetManifest returned                                               *)
Verdict(m, platform) ==
    IF m.err THEN [val |-> FALSE, ttl |-> cacheFailureTTL]
    ELSE IF platform \in m.platforms THEN [val |-> TRUE, ttl |-> cacheSuccessTTL]
    ELSE [val |-> FALSE, ttl |-> cacheNegativeTTL]

DoesImageSupportPlatform(st, name, platform, hosts) ==
    LET cacheKey == CacheKey(name, platform)
        got == CacheGet(st.cache, cacheKey)
        afterGet == Append(st.trace, [e |-> "cache.Get", key |-> cacheKey])
        m == GetManifest(name, hosts)
        afterInspect == Append(afterGet, [e |-> "GetManifest", key |-> name])
        out == Verdict(m, platform)
        called(v) == Append(st.calls, [image |-> name, platform |-> platform, result |-> v])
    IN  IF got.ok
        THEN [val |-> got.val,
              st |-> [cache |-> st.cache, trace |-> afterGet, calls |-> called(got.val)]]
        ELSE [val |-> out.val,
              st |-> [cache |-> CacheSet(st.cache, cacheKey, out.val, out.ttl),
                      trace |-> Append(afterInspect,
                                       [e |-> "cache.Set", key |-> cacheKey,
                                        value |-> out.val, ttl |-> out.ttl]),
                      calls |-> called(out.val)]]

----------------------------------------------------------------------------
(* admission.go: the platform resolver *)

(* an inner loop that passes over an image whose inspection failed *)
RECURSIVE checkContainersSkipFailures(_, _, _, _, _)
checkContainersSkipFailures(st, containers, i, platform, hosts) ==
    IF i > Len(containers) THEN [allSupport |-> TRUE, st |-> st]
    ELSE LET r == DoesImageSupportPlatform(st, containers[i].Image, platform, hosts)
         IN  IF ~r.val /\ ~GetManifest(containers[i].Image, hosts).err
             THEN [allSupport |-> FALSE, st |-> r.st]
             ELSE checkContainersSkipFailures(r.st, containers, i + 1, platform, hosts)

(* an inner loop that notes the failure and goes on to the next container *)
RECURSIVE checkContainersNoBreak(_, _, _, _, _)
checkContainersNoBreak(st, containers, i, platform, hosts) ==
    IF i > Len(containers) THEN [allSupport |-> TRUE, st |-> st]
    ELSE LET r == DoesImageSupportPlatform(st, containers[i].Image, platform, hosts)
             rest == checkContainersNoBreak(r.st, containers, i + 1, platform, hosts)
         IN  [allSupport |-> r.val /\ rest.allSupport, st |-> rest.st]

(* an inner loop that wants at least one container to vouch for a platform *)
RECURSIVE checkContainersNeedsOne(_, _, _, _, _)
checkContainersNeedsOne(st, containers, i, platform, hosts) ==
    IF Len(containers) = 0 THEN [allSupport |-> FALSE, st |-> st]
    ELSE IF i > Len(containers) THEN [allSupport |-> TRUE, st |-> st]
    ELSE LET r == DoesImageSupportPlatform(st, containers[i].Image, platform, hosts)
         IN  IF ~r.val THEN [allSupport |-> FALSE, st |-> r.st]
             ELSE checkContainersNeedsOne(r.st, containers, i + 1, platform, hosts)

(* the inner loop of getContainersSupportedPlatforms, from container i on: *)
(* it breaks at the first image that lacks support                         *)
RECURSIVE checkContainers(_, _, _, _, _)
checkContainers(st, containers, i, platform, hosts) ==
    IF i > Len(containers) THEN [allSupport |-> TRUE, st |-> st]
    ELSE LET r == DoesImageSupportPlatform(st, containers[i].Image, platform, hosts)
         IN  IF ~r.val THEN [allSupport |-> FALSE, st |-> r.st]
             ELSE checkContainers(r.st, containers, i + 1, platform, hosts)

(* an outer loop that puts each platform it finds in front of the others *)
RECURSIVE checkPlatformsNewestFirst(_, _, _, _, _, _)
checkPlatformsNewestFirst(st, configuredPlatforms, j, containers, hosts, supportedPlatforms) ==
    IF j > Len(configuredPlatforms) THEN [supportedPlatforms |-> supportedPlatforms, st |-> st]
    ELSE LET r == checkContainers(st, containers, 1, configuredPlatforms[j], hosts)
         IN  checkPlatformsNewestFirst(r.st, configuredPlatforms, j + 1, containers, hosts,
                            IF r.allSupport
                            THEN <<configuredPlatforms[j]>> \o supportedPlatforms
                            ELSE supportedPlatforms)

(* the outer loop, from configured platform j on *)
RECURSIVE checkPlatforms(_, _, _, _, _, _)
checkPlatforms(st, configuredPlatforms, j, containers, hosts, supportedPlatforms) ==
    IF j > Len(configuredPlatforms) THEN [supportedPlatforms |-> supportedPlatforms, st |-> st]
    ELSE LET r == checkContainers(st, containers, 1, configuredPlatforms[j], hosts)
         IN  checkPlatforms(r.st, configuredPlatforms, j + 1, containers, hosts,
                            IF r.allSupport
                            THEN Append(supportedPlatforms, configuredPlatforms[j])
                            ELSE supportedPlatforms)

getContainersSupportedPlatforms(st, cfg, containers, hosts) ==
    checkPlatforms(st, GetPlatforms(cfg), 1, containers, hosts, <<>>)

(* an ephemeral container is reduced to {Name, Image} *)
AsContainers(ecs) == [i \in 1..Len(ecs) |-> [Name |-> ecs[i].Name, Image |-> ecs[i].Image]]

(* a resolver that looks at the regular containers only *)
GetPodSupportedPlatformsRegularOnly(st, cfg, pod, hosts) ==
    getContainersSupportedPlatforms(st, cfg, pod.Spec.Containers, hosts)

GetPodSupportedPlatforms(st, cfg, pod, hosts) ==
    getContainersSupportedPlatforms(st, cfg,
        pod.Spec.Containers \o pod.Spec.InitContainers \o AsContainers(pod.Spec.EphemeralContainers),
        hosts)

GetPodTemplateSupportedPlatforms(st, cfg, template, hosts) ==
    getContainersSupportedPlatforms(st, cfg,
        template.Spec.Containers \o template.Spec.InitContainers
            \o AsContainers(template.Spec.EphemeralContainers),
        hosts)

----------------------------------------------------------------------------
(* admission.go: the toleration patcher *)

RECURSIVE appendMissingLastOnly(_, _, _)
RECURSIVE appendMissingFourFields(_, _, _)
RECURSIVE appendMissingInFront(_, _, _)

(* a loop that compares a new toleration with the last element only *)
appendMissingLastOnly(tolerations, newTolerations, i) ==
    IF i > Len(newTolerations) THEN tolerations
    ELSE appendMissingLastOnly(
             IF Len(tolerations) = 0 \/ tolerations[Len(tolerations)] # newTolerations[i]
             THEN Append(tolerations, newTolerations[i])
             ELSE tolerations,
             newTolerations, i + 1)

(* a loop that compares key, value, operator and effect and nothing else *)
appendMissingFourFields(tolerations, newTolerations, i) ==
    IF i > Len(newTolerations) THEN tolerations
    ELSE appendMissingFourFields(
             IF \A k \in 1..Len(tolerations) :
                    [tolerations[k] EXCEPT !.TolerationSeconds = 0] # newTolerations[i]
             THEN Append(tolerations, newTolerations[i])
             ELSE tolerations,
             newTolerations, i + 1)

(* a loop that puts a missing toleration in front of the list *)
appendMissingInFront(tolerations, newTolerations, i) ==
    IF i > Len(newTolerations) THEN tolerations
    ELSE appendMissingInFront(
             IF ~Contains(tolerations, newTolerations[i])
             THEN <<newTolerations[i]>> \o tolerations
             ELSE tolerations,
             newTolerations, i + 1)

(* a loop that appends without looking at what the list holds *)
appendAlways(tolerations, newTolerations, i) ==
    tolerations \o SubSeq(newTolerations, i, Len(newTolerations))

(* the loop of addTolerationsToSlice, from new toleration i on *)
RECURSIVE appendMissing(_, _, _)
appendMissing(tolerations, newTolerations, i) ==
    IF i > Len(newTolerations) THEN tolerations
    ELSE appendMissing(IF ~Contains(tolerations, newTolerations[i])
                       THEN Append(tolerations, newTolerations[i])
                       ELSE tolerations,
                       newTolerations, i + 1)

addTolerationsToSlice(cfg, supportedPlatforms, tolerations) ==
    appendMissing(tolerations, GetTolerationsForPlatforms(cfg, supportedPlatforms), 1)

AddTolerationsToPod(cfg, pod, supportedPlatforms) ==
    [pod EXCEPT !.Spec.Tolerations = addTolerationsToSlice(cfg, supportedPlatforms, @)]

AddTolerationsToPodTemplate(cfg, template, supportedPlatforms) ==
    [template EXCEPT !.Spec.Tolerations = addTolerationsToSlice(cfg, supportedPlatforms, @)]

AddMultiarchTolerationToPod(pod) ==
    IF Contains(pod.Spec.Tolerations, MultiarchToleration) THEN pod
    ELSE [pod EXCEPT !.Spec.Tolerations = Append(@, MultiarchToleration)]

----------------------------------------------------------------------------
(* The submitted object as JSON, reduced to what the webhook reads: the    *)
(* pod spec at /spec (a Pod) or at /spec/template/spec (a DaemonSet),      *)
(* metadata.namespace, and whether the document carries a field that the   *)
(* compiled-in API types do not know.  A list that is empty is absent      *)
(* (omitempty).  skipMutation: the pod metadata (for a DaemonSet, the pod  *)
(* template metadata) carries the annotation                               *)
(* k8smultiarcher.programmerq.io/skip-mutation: "true".                    *)

EmptyPodSpecJSON ==
    [containers |-> <<>>, initContainers |-> <<>>, ephemeralContainers |-> <<>>,
     tolerations |-> <<>>]

PodDoc(ns, spec, foreign) ==
    [decodable |-> TRUE, namespace |-> ns, spec |-> spec, template |-> EmptyPodSpecJSON,
     foreign |-> foreign, skipMutation |-> FALSE]

DaemonSetDoc(ns, spec, foreign) ==
    [decodable |-> TRUE, namespace |-> ns, spec |-> EmptyPodSpecJSON, template |-> spec,
     foreign |-> foreign, skipMutation |-> FALSE]

(* metadata.annotations, as far as the model follows them *)
Annotations(doc) == [skipMutation |-> doc.skipMutation]

WithAnnotations(doc, annotations) == [doc EXCEPT !.skipMutation = annotations.skipMutation]

(* bytes that do not decode into the expected type, or no object at all *)
GarbageDoc ==
    [decodable |-> FALSE, namespace |-> "", spec |-> EmptyPodSpecJSON,
     template |-> EmptyPodSpecJSON, foreign |-> FALSE, skipMutation |-> FALSE]

(* json.Unmarshal into corev1.PodSpec, json.Marshal of it *)
UnmarshalPodSpec(j) ==
    [Containers |-> [i \in 1..Len(j.containers) |->
                        [Name |-> j.containers[i].name, Image |-> j.containers[i].image]],
     InitContainers |-> [i \in 1..Len(j.initContainers) |->
                        [Name |-> j.initContainers[i].name, Image |-> j.initContainers[i].image]],
     EphemeralContainers |-> [i \in 1..Len(j.ephemeralContainers) |->
                        [Name |-> j.ephemeralContainers[i].name,
                         Image |-> j.ephemeralContainers[i].image,
                         TargetContainerName |-> ""]],
     Tolerations |-> UnmarshalTolerations(j.tolerations),
     ImagePullSecrets |-> <<>>, ServiceAccountName |-> ""]

MarshalContainers(cs) == [i \in 1..Len(cs) |-> [name |-> cs[i].Name, image |-> cs[i].Image]]

MarshalPodSpec(spec) ==
    [containers |-> MarshalContainers(spec.Containers),
     initContainers |-> MarshalContainers(spec.InitContainers),
     ephemeralContainers |-> MarshalContainers(spec.EphemeralContainers),
     tolerations |-> MarshalTolerations(spec.Tolerations)]

(* a decoder that takes bytes it cannot decode for an empty pod *)
UnmarshalPodLenient(doc) ==
    [err |-> FALSE,
     pod |-> [Namespace |-> doc.namespace, Annotations |-> Annotations(doc),
              Spec |-> UnmarshalPodSpec(doc.spec)]]

(* json.Unmarshal(obj.Raw, pod): unknown fields are dropped *)
UnmarshalPod(doc) ==
    [err |-> ~doc.decodable,
     pod |-> [Namespace |-> doc.namespace, Annotations |-> Annotations(doc),
              Spec |-> UnmarshalPodSpec(doc.spec)]]

(* json.Unmarshal(obj.Raw, daemonSet) *)
UnmarshalDaemonSet(doc) ==
    [err |-> ~doc.decodable,
     daemonSet |-> [Namespace |-> doc.namespace,
                    Spec |-> [Template |-> [Annotations |-> Annotations(doc),
                                            Spec |-> UnmarshalPodSpec(doc.template)]]]]

MarshalPod(pod) ==
    WithAnnotations(PodDoc(pod.Namespace, MarshalPodSpec(pod.Spec), FALSE), pod.Annotations)

MarshalDaemonSet(ds) ==
    WithAnnotations(DaemonSetDoc(ds.Namespace, MarshalPodSpec(ds.Spec.Template.Spec), FALSE),
                    ds.Spec.Template.Annotations)

----------------------------------------------------------------------------
(* jsonpatch.CreatePatch(original, modified): the operations that turn the *)
(* original document into the modified one.  An operation is               *)
(* [op, path, index, value]: index -1 addresses the member at path itself, *)
(* index i >= 0 element i of the array at path.                            *)

PodSpecFields == <<"containers", "initContainers", "ephemeralContainers", "tolerations">>

Op(op, path, index, value) == [op |-> op, path |-> path, index |-> index, value |-> value]

(* the operations for one array member of a JSON object *)
DiffArray(path, a, b) ==
    IF a = b THEN <<>>
    ELSE IF Len(a) = 0 THEN <<Op("add", path, -1, b)>>
    ELSE IF Len(b) = 0 THEN <<Op("remove", path, -1, <<>>)>>
    ELSE LET common == IF Len(a) < Len(b) THEN Len(a) ELSE Len(b)
             changed == SelectSeq([i \in 1..common |-> i], LAMBDA i : a[i] # b[i])
             gone == [k \in 1..(Len(a) - common) |-> Len(a) + 1 - k]
         IN  [k \in 1..Len(changed) |-> Op("replace", path, changed[k] - 1, <<b[changed[k]]>>)]
             \o [k \in 1..Len(gone) |-> Op("remove", path, gone[k] - 1, <<>>)]
             \o [k \in 1..(Len(b) - common) |-> Op("add", path, common + k - 1, <<b[common + k]>>)]

DiffPodSpec(prefix, a, b) ==
    DiffArray(prefix \o "/containers", a.containers, b.containers)
    \o DiffArray(prefix \o "/initContainers", a.initContainers, b.initContainers)
    \o DiffArray(prefix \o "/ephemeralContainers", a.ephemeralContainers, b.ephemeralContainers)
    \o DiffArray(prefix \o "/tolerations", a.tolerations, b.tolerations)

CreatePatch(original, modified) ==
    (IF original.namespace # modified.namespace
     THEN <<Op("replace", "/metadata/namespace", -1, <<modified.namespace>>)>> ELSE <<>>)
    \o DiffPodSpec("/spec", original.spec, modified.spec)
    \o DiffPodSpec("/spec/template/spec", original.template, modified.template)
    \o (IF original.foreign /\ ~modified.foreign THEN <<Op("remove", "/foreign", -1, <<>>)>>
        ELSE <<>>)

(* what the API server does with the patch (RFC 6902) *)
ApplyArrayOp(arr, o) ==
    IF o.index = -1 THEN (IF o.op = "remove" THEN <<>> ELSE o.value)
    ELSE IF o.op = "replace" THEN [arr EXCEPT ![o.index + 1] = o.value[1]]
    ELSE IF o.op = "remove"
         THEN SubSeq(arr, 1, o.index) \o SubSeq(arr, o.index + 2, Len(arr))
    ELSE SubSeq(arr, 1, o.index) \o o.value \o SubSeq(arr, o.index + 1, Len(arr))

ApplyOp(doc, o) ==
    LET inSpec(prefix, f) == o.path = prefix \o "/" \o f
        specOf(prefix, j) ==
            [f \in DOMAIN j |-> IF inSpec(prefix, f) THEN ApplyArrayOp(j[f], o) ELSE j[f]]
    IN  [decodable |-> doc.decodable,
         namespace |-> IF o.path = "/metadata/namespace" THEN o.value[1] ELSE doc.namespace,
         spec |-> specOf("/spec", doc.spec),
         template |-> specOf("/spec/template/spec", doc.template),
         foreign |-> IF o.path = "/foreign" THEN FALSE ELSE doc.foreign,
         skipMutation |-> doc.skipMutation]

RECURSIVE ApplyPatch(_, _)
ApplyPatch(doc, patch) ==
    IF Len(patch) = 0 THEN doc ELSE ApplyPatch(ApplyOp(doc, Head(patch)), Tail(patch))

----------------------------------------------------------------------------
(* registry_auth.go.  The cluster: namespaces, service accounts and the    *)
(* image pull secrets they name.                                           *)

(* the namespaces of the cluster with the value of their                   *)
(* k8smultiarcher.programmerq.io/disabled annotation ("" when absent), and *)
(* the namespaces the deployment lists in NAMESPACES_TO_IGNORE             *)
ClusterNamespaces ==
    [ns \in {"team-a", "quiet", "loud", "kube-system"} |->
        CASE ns = "quiet" -> "true"
          [] ns = "loud" -> "True"
          [] OTHER -> ""]

NamespacesToIgnore == {"kube-system"}

(* Secrets of type dockerconfigjson or dockercfg hold a JSON document with *)
(* one auth entry for each registry.                                       *)
AuthEntry(username, password, auth, identityToken) ==
    [Username |-> username, Password |-> password, Auth |-> auth, IdentityToken |-> identityToken]

(* the document in the secret's data: absent, not JSON, or the entries *)
NoDocument == [present |-> FALSE, wellFormed |-> FALSE, auths |-> [r \in {} |-> AuthEntry(<<>>, <<>>, <<>>, <<>>)]]

Garbled == [NoDocument EXCEPT !.present = TRUE]

Document(auths) == [present |-> TRUE, wellFormed |-> TRUE, auths |-> auths]

(* Strings that are decoded or split are sequences of bytes; base64 text   *)
(* is a sequence of alphabet indexes 0..63, with 64 for the padding "="    *)
(* and anything above for a character outside the alphabet.                *)
Colon == <<58>>

IsColon(b) == b = Colon[1]

IsPadding(x) == x = 64

(* base64.StdEncoding.EncodeToString *)
RECURSIVE EncodeToString(_)
EncodeToString(src) ==
    IF Len(src) = 0 THEN <<>>
    ELSE IF Len(src) = 1
    THEN <<src[1] \div 4, (src[1] % 4) * 16, 64, 64>>
    ELSE IF Len(src) = 2
    THEN <<src[1] \div 4, (src[1] % 4) * 16 + (src[2] \div 16), (src[2] % 16) * 4, 64>>
    ELSE <<src[1] \div 4, (src[1] % 4) * 16 + (src[2] \div 16),
           (src[2] % 16) * 4 + (src[3] \div 64), src[3] % 64>>
         \o EncodeToString(SubSeq(src, 4, Len(src)))

(* the bytes of one group of four base64 characters *)
DecodeQuantum(q) ==
    LET b1 == q[1] * 4 + (q[2] \div 16)
        b2 == (q[2] % 16) * 16 + (IF IsPadding(q[3]) THEN 0 ELSE q[3] \div 4)
        b3 == (IF IsPadding(q[3]) THEN 0 ELSE (q[3] % 4) * 64) + (IF IsPadding(q[4]) THEN 0 ELSE q[4])
    IN  IF IsPadding(q[3]) THEN <<b1>>
        ELSE IF IsPadding(q[4]) THEN <<b1, b2>>
        ELSE <<b1, b2, b3>>

(* base64.StdEncoding.DecodeString: groups of four, padding only at the    *)
(* end of the last group                                                   *)
RECURSIVE DecodeString(_)
DecodeString(s) ==
    IF Len(s) = 0 THEN [err |-> FALSE, bytes |-> <<>>]
    ELSE IF Len(s) < 4 THEN [err |-> TRUE, bytes |-> <<>>]
    ELSE LET q == SubSeq(s, 1, 4)
             final == Len(s) = 4
             wellFormed == /\ \A i \in 1..4 : q[i] <= 64
                           /\ ~IsPadding(q[1]) /\ ~IsPadding(q[2])
                           /\ IsPadding(q[3]) => IsPadding(q[4])
                           /\ IsPadding(q[4]) => final
             rest == DecodeString(SubSeq(s, 5, Len(s)))
         IN  IF ~wellFormed \/ rest.err THEN [err |-> TRUE, bytes |-> <<>>]
             ELSE [err |-> FALSE, bytes |-> DecodeQuantum(q) \o rest.bytes]

(* the index of the first colon of s, 0 when there is none *)
IndexOfColon(s) ==
    IF \E i \in 1..Len(s) : IsColon(s[i])
    THEN CHOOSE i \in 1..Len(s) : IsColon(s[i]) /\ \A j \in 1..(i - 1) : ~IsColon(s[j])
    ELSE 0

(* a decoder that splits at every colon and wants two parts *)
decodeDockerAuthSplitAll(encoded) ==
    LET d == DecodeString(encoded)
        colons == {i \in 1..Len(d.bytes) : IsColon(d.bytes[i])}
        i == IndexOfColon(d.bytes)
    IN  IF d.err \/ Cardinality(colons) # 1 THEN [user |-> <<>>, pass |-> <<>>, err |-> TRUE]
        ELSE [user |-> SubSeq(d.bytes, 1, i - 1), pass |-> SubSeq(d.bytes, i + 1, Len(d.bytes)),
              err |-> FALSE]

(* decodeDockerAuth: strings.SplitN(string(decoded), ":", 2) *)
decodeDockerAuth(encoded) ==
    LET d == DecodeString(encoded)
        i == IndexOfColon(d.bytes)
    IN  IF d.err \/ i = 0 THEN [user |-> <<>>, pass |-> <<>>, err |-> TRUE]
        ELSE [user |-> SubSeq(d.bytes, 1, i - 1), pass |-> SubSeq(d.bytes, i + 1, Len(d.bytes)),
              err |-> FALSE]

(* "u", "v", "p", "t" *)
UserU == <<117>>

UserV == <<118>>

PassP == <<112>>

TokenT == <<116>>

(* the secrets of namespace team-a *)
ClusterSecrets ==
    [regcred |-> [Type |-> "kubernetes.io/dockerconfigjson",
                  Data |-> Document([r \in {"registry.example.com"} |->
                                        AuthEntry(UserU, PassP, <<>>, <<>>)])],
     legacy  |-> [Type |-> "kubernetes.io/dockercfg",
                  Data |-> Document([r \in {"ghcr.io"} |->
                                        AuthEntry(<<>>, <<>>,
                                                  EncodeToString(UserV \o Colon \o PassP \o Colon \o PassP),
                                                  <<>>)])],
     broken  |-> [Type |-> "kubernetes.io/dockerconfigjson", Data |-> Garbled],
     hollow  |-> [Type |-> "kubernetes.io/dockerconfigjson", Data |-> NoDocument],
     opaque  |-> [Type |-> "Opaque",
                  Data |-> Document([r \in {"registry.example.com"} |->
                                        AuthEntry(UserV, PassP, <<>>, <<>>)])],
     partial |-> [Type |-> "kubernetes.io/dockerconfigjson",
                  Data |-> Document(
                      [r \in {"registry.example.com", "ghcr.io", "bad host", "quay.io", "docker.io"} |->
                          CASE r = "registry.example.com" ->
                                   AuthEntry(<<>>, <<>>, SubSeq(EncodeToString(UserU \o Colon \o PassP), 1, 3), <<>>)
                            [] r = "ghcr.io" -> AuthEntry(<<>>, <<>>, <<>>, TokenT)
                            [] r = "bad host" -> AuthEntry(UserU, PassP, <<>>, <<>>)
                            [] r = "quay.io" -> AuthEntry(<<>>, <<>>, EncodeToString(UserU \o UserV), <<>>)
                            [] r = "docker.io" ->
                                   AuthEntry(<<>>, <<>>, EncodeToString(UserU \o Colon \o PassP), <<>>)])]]

(* the image pull secrets the service accounts of team-a name *)
ClusterServiceAccounts ==
    [default |-> <<"regcred">>,
     builder |-> <<"partial", "", "regcred">>]

(* the API as the webhook finds it: down (no read succeeds), service       *)
(* accounts readable or not, and the secrets it may not read               *)
HealthyCluster == [down |-> FALSE, accounts |-> TRUE, denied |-> {}]

(* one order in which a Go map may be walked, over every key the model has *)
KeyOrder ==
    <<"broken", "docker.io", "regcred", "bad host", "ghcr.io", "hollow", "legacy",
      "missing", "opaque", "partial", "quay.io", "registry.example.com">>

Reverse(s) == [i \in 1..Len(s) |-> s[Len(s) + 1 - i]]

(* ServiceAccounts(namespace).Get *)
GetServiceAccount(cluster, namespace, name) ==
    IF cluster.down \/ ~cluster.accounts \/ namespace # "team-a"
       \/ name \notin DOMAIN ClusterServiceAccounts
    THEN [err |-> TRUE, ImagePullSecrets |-> <<>>]
    ELSE [err |-> FALSE, ImagePullSecrets |-> ClusterServiceAccounts[name]]

(* Secrets(namespace).Get *)
GetSecret(cluster, namespace, name) ==
    IF cluster.down \/ name \in cluster.denied \/ namespace # "team-a"
       \/ name \notin DOMAIN ClusterSecrets
    THEN [err |-> TRUE, secret |-> [Type |-> "", Data |-> NoDocument]]
    ELSE [err |-> FALSE, secret |-> ClusterSecrets[name]]

(* config.HostValidate *)
HostValidate(registry) == registry # "bad host"

(* a client getter that tries the initialisation again after a failure *)
getKubeClientRetry(kc, initOutcome, trace) ==
    IF kc \in {"uninit", "err"}
    THEN [client |-> initOutcome, trace |-> Append(trace, [e |-> "rest.InClusterConfig"])]
    ELSE [client |-> kc, trace |-> trace]

(* getKubeClient: sync.Once runs the initialisation on the first call only; *)
(* initOutcome is what rest.InClusterConfig / NewForConfig give then        *)
getKubeClient(kc, initOutcome, trace) ==
    IF kc = "uninit"
    THEN [client |-> initOutcome, trace |-> Append(trace, [e |-> "rest.InClusterConfig"])]
    ELSE [client |-> kc, trace |-> trace]

(* mapKeys: the keys of the map in the order the map is walked *)
mapKeys(values, order) == SelectSeq(order, LAMBDA k : k \in values)

(* the names of a list of references, empty names left out *)
RefNames(refs) == {refs[i] : i \in 1..Len(refs)} \ {""}

(* secrets collected from the service account only: nothing without it *)
collectImagePullSecretsAccountOnly(cluster, order, trace, namespace, podSpec) ==
    LET serviceAccountName == IF podSpec.ServiceAccountName = "" THEN "default"
                              ELSE podSpec.ServiceAccountName
        serviceAccount == GetServiceAccount(cluster, namespace, serviceAccountName)
        read == Append(trace, [e |-> "ServiceAccounts.Get", key |-> namespace,
                               name |-> serviceAccountName])
    IN  [secretNames |-> IF serviceAccount.err THEN <<>>
                         ELSE mapKeys(RefNames(serviceAccount.ImagePullSecrets), order),
         trace |-> read]

collectImagePullSecrets(cluster, order, trace, namespace, podSpec) ==
    LET own == RefNames(podSpec.ImagePullSecrets)
        serviceAccountName == IF podSpec.ServiceAccountName = "" THEN "default"
                              ELSE podSpec.ServiceAccountName
        serviceAccount == GetServiceAccount(cluster, namespace, serviceAccountName)
        read == Append(trace, [e |-> "ServiceAccounts.Get", key |-> namespace,
                               name |-> serviceAccountName])
    IN  [secretNames |-> IF serviceAccount.err THEN mapKeys(own, order)
                         ELSE mapKeys(own \cup RefNames(serviceAccount.ImagePullSecrets), order),
         trace |-> read]

(* hostsFromAuths, from the i-th registry of the walk on *)
RECURSIVE hostsFromRegistries(_, _, _)
hostsFromRegistries(auths, registries, i) ==
    IF i > Len(registries) THEN <<>>
    ELSE LET registry == registries[i]
             auth == auths[registry]
             blobOnly == auth.Username = <<>> /\ auth.Password = <<>> /\ auth.Auth # <<>>
             decoded == decodeDockerAuth(auth.Auth)
             user == IF blobOnly THEN decoded.user ELSE auth.Username
             pass == IF blobOnly THEN decoded.pass ELSE auth.Password
             rest == hostsFromRegistries(auths, registries, i + 1)
         IN  IF blobOnly /\ decoded.err THEN rest
             ELSE IF user = <<>> /\ pass = <<>> /\ auth.IdentityToken = <<>> THEN rest
             ELSE IF ~HostValidate(registry) THEN rest
             ELSE <<[Name |-> registry, User |-> user, Pass |-> pass,
                     Token |-> auth.IdentityToken]>> \o rest

(* a walk over the entries that gives up at the first one it cannot use *)
RECURSIVE hostsFromRegistriesStrict(_, _, _)
hostsFromRegistriesStrict(auths, registries, i) ==
    IF i > Len(registries) THEN <<>>
    ELSE LET registry == registries[i]
             auth == auths[registry]
             blobOnly == auth.Username = <<>> /\ auth.Password = <<>> /\ auth.Auth # <<>>
             decoded == decodeDockerAuth(auth.Auth)
             user == IF blobOnly THEN decoded.user ELSE auth.Username
             pass == IF blobOnly THEN decoded.pass ELSE auth.Password
             rest == hostsFromRegistriesStrict(auths, registries, i + 1)
         IN  IF blobOnly /\ decoded.err THEN <<>>
             ELSE IF user = <<>> /\ pass = <<>> /\ auth.IdentityToken = <<>> THEN rest
             ELSE IF ~HostValidate(registry) THEN rest
             ELSE <<[Name |-> registry, User |-> user, Pass |-> pass,
                     Token |-> auth.IdentityToken]>> \o rest

hostsFromAuthsStrict(auths, order) ==
    hostsFromRegistriesStrict(auths, mapKeys(DOMAIN auths, order), 1)

hostsFromAuths(auths, order) == hostsFromRegistries(auths, mapKeys(DOMAIN auths, order), 1)

hostsFromSecret(secret, order) ==
    IF secret.Type \in {"kubernetes.io/dockerconfigjson", "kubernetes.io/dockercfg"}
    THEN IF ~secret.Data.present \/ ~secret.Data.wellFormed
         THEN [err |-> TRUE, hosts |-> <<>>]
         ELSE [err |-> FALSE, hosts |-> hostsFromAuths(secret.Data.auths, order)]
    ELSE [err |-> TRUE, hosts |-> <<>>]

(* the loop of GetRegistryHosts over the secret names, from the i-th on *)
RECURSIVE hostsOfSecrets(_, _, _, _, _, _)
hostsOfSecrets(cluster, order, trace, namespace, secretNames, i) ==
    IF i > Len(secretNames) THEN [hosts |-> <<>>, trace |-> trace]
    ELSE LET got == GetSecret(cluster, namespace, secretNames[i])
             read == Append(trace, [e |-> "Secrets.Get", key |-> secretNames[i],
                                    namespace |-> namespace])
             secretHosts == hostsFromSecret(got.secret, order)
             rest == hostsOfSecrets(cluster, order, read, namespace, secretNames, i + 1)
         IN  IF got.err \/ secretHosts.err THEN rest
             ELSE [hosts |-> secretHosts.hosts \o rest.hosts, trace |-> rest.trace]

(* a pod spec pointer that is nil *)
NilPodSpec == [isNil |-> TRUE]

IsNilPodSpec(podSpec) == "isNil" \in DOMAIN podSpec

(* a lookup that asks for the client before it looks at its arguments *)
GetRegistryHostsEager(cluster, order, kc, initOutcome, trace, namespace, podSpec) ==
    LET k == getKubeClient(kc, initOutcome, trace)
    IN  IF k.client = "err" \/ namespace = "" \/ IsNilPodSpec(podSpec)
        THEN [hosts |-> <<>>, nilHosts |-> TRUE, kubeClient |-> k.client, trace |-> k.trace]
        ELSE LET s == collectImagePullSecrets(cluster, order, k.trace, namespace, podSpec)
                 found == hostsOfSecrets(cluster, order, s.trace, namespace, s.secretNames, 1)
             IN  IF Len(s.secretNames) = 0
                 THEN [hosts |-> <<>>, nilHosts |-> TRUE, kubeClient |-> k.client,
                       trace |-> s.trace]
                 ELSE [hosts |-> found.hosts, nilHosts |-> FALSE,
                       kubeClient |-> k.client, trace |-> found.trace]

(* GetRegistryHosts: nilHosts tells a nil result from an empty list *)
GetRegistryHosts(cluster, order, kc, initOutcome, trace, namespace, podSpec) ==
    IF namespace = "" \/ IsNilPodSpec(podSpec)
    THEN [hosts |-> <<>>, nilHosts |-> TRUE, kubeClient |-> kc, trace |-> trace]
    ELSE LET k == getKubeClient(kc, initOutcome, trace)
             s == collectImagePullSecrets(cluster, order, k.trace, namespace, podSpec)
             found == hostsOfSecrets(cluster, order, s.trace, namespace, s.secretNames, 1)
         IN  IF k.client = "err"
             THEN [hosts |-> <<>>, nilHosts |-> TRUE, kubeClient |-> k.client, trace |-> k.trace]
             ELSE IF Len(s.secretNames) = 0
             THEN [hosts |-> <<>>, nilHosts |-> TRUE, kubeClient |-> k.client, trace |-> s.trace]
             ELSE [hosts |-> found.hosts, nilHosts |-> FALSE,
                   kubeClient |-> k.client, trace |-> found.trace]

(* a namespace check that skips mutation when it cannot read the namespace *)
IsNamespaceDisabledFailOpen(cluster, kc, initOutcome, trace, namespace) ==
    IF namespace = ""
    THEN [disabled |-> FALSE, kubeClient |-> kc, trace |-> trace]
    ELSE LET k == getKubeClient(kc, initOutcome, trace)
             read == Append(k.trace, [e |-> "Namespaces.Get", key |-> namespace])
         IN  IF k.client = "err"
             THEN [disabled |-> FALSE, kubeClient |-> k.client, trace |-> k.trace]
             ELSE IF cluster.down \/ namespace \notin DOMAIN ClusterNamespaces
             THEN [disabled |-> TRUE, kubeClient |-> k.client, trace |-> read]
             ELSE [disabled |-> ClusterNamespaces[namespace] = "true",
                   kubeClient |-> k.client, trace |-> read]

(* IsNamespaceDisabled: false for an empty namespace, without a client and *)
(* when the namespace cannot be read                                       *)
IsNamespaceDisabled(cluster, kc, initOutcome, trace, namespace) ==
    IF namespace = ""
    THEN [disabled |-> FALSE, kubeClient |-> kc, trace |-> trace]
    ELSE LET k == getKubeClient(kc, initOutcome, trace)
             read == Append(k.trace, [e |-> "Namespaces.Get", key |-> namespace])
         IN  IF k.client = "err"
             THEN [disabled |-> FALSE, kubeClient |-> k.client, trace |-> k.trace]
             ELSE IF cluster.down \/ namespace \notin DOMAIN ClusterNamespaces
             THEN [disabled |-> FALSE, kubeClient |-> k.client, trace |-> read]
             ELSE [disabled |-> ClusterNamespaces[namespace] = "true",
                   kubeClient |-> k.client, trace |-> read]

----------------------------------------------------------------------------
(* admission.go: ProcessAdmissionReview *)

NilResponse ==
    [set |-> FALSE, UID |-> "", Allowed |-> FALSE, PatchType |-> "", HasPatch |-> FALSE,
     Patch |-> <<>>]

NilRequest == [UID |-> "", Kind |-> "", Namespace |-> "", Object |-> GarbageDoc]

NilReview == [set |-> FALSE, Request |-> NilRequest, Response |-> NilResponse]

(* a response that starts out denied *)
NewResponseDenied(uid) ==
    [set |-> TRUE, UID |-> uid, Allowed |-> FALSE, PatchType |-> "", HasPatch |-> FALSE,
     Patch |-> <<>>]

(* response := admissionv1.AdmissionResponse{UID: ..., Allowed: true} *)
NewResponse(uid) ==
    [set |-> TRUE, UID |-> uid, Allowed |-> TRUE, PatchType |-> "", HasPatch |-> FALSE,
     Patch |-> <<>>]

AdmissionReviewFromRequest(body) ==
    IF ~body.parseable THEN [review |-> NilReview, err |-> "invalid character"]
    ELSE IF ~body.hasRequest
    THEN [review |-> NilReview, err |-> "got an invalid admission request"]
    ELSE [review |-> [set |-> TRUE, Request |-> body.request, Response |-> NilResponse],
          err |-> ""]

(* What a call leaves behind besides its return values: the cache, the     *)
(* Kubernetes client, the external operations it made (trace), the         *)
(* DoesImageSupportPlatform results it got (calls), and, once the platform *)
(* resolver has run (resolved), the platforms it returned.                 *)
Untouched(c, kc) ==
    [cache |-> c, kubeClient |-> kc, trace |-> <<>>, calls |-> <<>>, resolved |-> FALSE,
     supportedPlatforms |-> <<>>]

Resolved(r, kc) ==
    [cache |-> r.st.cache, kubeClient |-> kc, trace |-> r.st.trace, calls |-> r.st.calls,
     resolved |-> TRUE, supportedPlatforms |-> r.supportedPlatforms]

(* an engine that never takes the nothing-to-do path *)
NoPlatformSupportedNever(supportedPlatforms) == FALSE

(* len(supportedPlatforms) == 0 *)
NoPlatformSupported(supportedPlatforms) == Len(supportedPlatforms) = 0

(* an error return that hands back a review with a half-filled response *)
ReturnErrorWithReview(err, env) ==
    [review |-> [set |-> TRUE, Request |-> NilRequest,
                 Response |-> [NilResponse EXCEPT !.set = TRUE, !.PatchType = "JSONPatch"]],
     err |-> err, env |-> env]

(* return nil, err *)
ReturnError(err, env) == [review |-> NilReview, err |-> err, env |-> env]

(* review.Response = &response; return review, nil *)
ReturnReview(review, response, env) ==
    [review |-> [review EXCEPT !.Response = response], err |-> "", env |-> env]

(* lines 109-126: diff, encode, fill in the response *)
FinishWithPatch(review, response, originalBytes, modifiedBytes, fault, env) ==
    LET patch == CreatePatch(originalBytes, modifiedBytes)
        diffed == [env EXCEPT !.trace = Append(@, [e |-> "jsonpatch.CreatePatch"])]
    IN  IF fault = "diff" THEN ReturnError("failed to create patch", diffed)
        ELSE IF fault = "encode" THEN ReturnError("failed to marshal patch", diffed)
        ELSE ReturnReview(review,
                          [response EXCEPT !.PatchType = "JSONPatch", !.HasPatch = TRUE,
                                           !.Patch = patch],
                          diffed)

(* a resolution that prefers the namespace written in the object *)
EffectiveNamespaceObjectFirst(requestNamespace, objectNamespace) ==
    IF objectNamespace = "" THEN requestNamespace ELSE objectNamespace

(* namespace := admissionReview.Request.Namespace; if namespace == "" the  *)
(* namespace of the object                                                 *)
EffectiveNamespace(requestNamespace, objectNamespace) ==
    IF requestNamespace = "" THEN objectNamespace ELSE requestNamespace

ProcessPod(cfg, c, kc, initOutcome, fault, review, response) ==
    LET obj == review.Request.Object
        u == UnmarshalPod(obj)
        pod == u.pod
        namespace == EffectiveNamespace(review.Request.Namespace, pod.Namespace)
        (* the steps after the registry hosts rh and the platforms r are known *)
        Patch(rh, r) ==
            LET env == Resolved(r, rh.kubeClient)
                patched == AddTolerationsToPod(cfg, pod, r.supportedPlatforms)
            IN  IF NoPlatformSupported(r.supportedPlatforms) THEN ReturnReview(review, response, env)
                ELSE IF fault = "marshal" THEN ReturnError("failed to marshal pod", env)
                ELSE FinishWithPatch(review, response, obj, MarshalPod(patched), fault, env)
        Resolve(rh) ==
            CHOOSE out \in {Patch(rh, r) :
                               r \in {GetPodSupportedPlatforms(
                                          [cache |-> c, trace |-> rh.trace, calls |-> <<>>],
                                          cfg, pod, rh.hosts)}} : TRUE
    IN  IF u.err THEN ReturnError("failed to unmarshal pod", Untouched(c, kc))
        ELSE CHOOSE out \in {Resolve(rh) :
                                rh \in {GetRegistryHosts(HealthyCluster, KeyOrder, kc, initOutcome,
                                                         <<>>, namespace, pod.Spec)}} : TRUE

ProcessDaemonSet(cfg, c, kc, initOutcome, fault, review, response) ==
    LET obj == review.Request.Object
        u == UnmarshalDaemonSet(obj)
        daemonSet == u.daemonSet
        namespace == EffectiveNamespace(review.Request.Namespace, daemonSet.Namespace)
        (* the steps after the registry hosts rh and the platforms r are known *)
        Patch(rh, r) ==
            LET env == Resolved(r, rh.kubeClient)
                patched == [daemonSet EXCEPT !.Spec.Template =
                                AddTolerationsToPodTemplate(cfg, @, r.supportedPlatforms)]
            IN  IF NoPlatformSupported(r.supportedPlatforms) THEN ReturnReview(review, response, env)
                ELSE IF fault = "marshal" THEN ReturnError("failed to marshal daemonset", env)
                ELSE FinishWithPatch(review, response, obj, MarshalDaemonSet(patched), fault, env)
        Resolve(rh) ==
            CHOOSE out \in {Patch(rh, r) :
                               r \in {GetPodTemplateSupportedPlatforms(
                                          [cache |-> c, trace |-> rh.trace, calls |-> <<>>],
                                          cfg, daemonSet.Spec.Template, rh.hosts)}} : TRUE
    IN  IF u.err THEN ReturnError("failed to unmarshal daemonset", Untouched(c, kc))
        ELSE CHOOSE out \in {Resolve(rh) :
                                rh \in {GetRegistryHosts(HealthyCluster, KeyOrder, kc, initOutcome,
                                                         <<>>, namespace,
                                                         daemonSet.Spec.Template.Spec)}} : TRUE

(* initOutcome and fault are the environment's part in the call: what the  *)
(* Kubernetes client initialisation gives if this call is the first to run *)
(* it, and which of json.Marshal(object), CreatePatch, json.Marshal(patch) *)
(* fails, if any.                                                          *)
ProcessAdmissionReview(cfg, c, kc, initOutcome, fault, requestBody) ==
    LET parsed == AdmissionReviewFromRequest(requestBody)
        review == parsed.review
        response == NewResponse(review.Request.UID)
    IN  IF parsed.err # "" THEN ReturnError(parsed.err, Untouched(c, kc))
        ELSE CASE review.Request.Kind = "Pod" ->
                    ProcessPod(cfg, c, kc, initOutcome, fault, review, response)
               [] review.Request.Kind = "DaemonSet" ->
                    ProcessDaemonSet(cfg, c, kc, initOutcome, fault, review, response)
               [] OTHER ->
                    ReturnError("got a request for an unsupported kind", Untouched(c, kc))

----------------------------------------------------------------------------
(* The requests the API server sends *)

ContainerJSON(img) == [name |-> "app", image |-> img]

ContainerLists == SeqsUpTo({ContainerJSON(img) : img \in Images}, MaxContainers)

(* tolerations a workload may already carry: a configured one, the four    *)
(* strings of a configured one with tolerationSeconds set, an unrelated one *)
ExistingTolerations ==
    {MarshalToleration(TolArm),
     MarshalToleration(Toleration("arch", "amd64", "Equal", "NoExecute", 300)),
     MarshalToleration(Toleration("dedicated", "", "Exists", "", 0))}

PodSpecs ==
    {s \in [containers : ContainerLists, initContainers : ContainerLists,
            ephemeralContainers : ContainerLists,
            tolerations : SeqsUpTo(ExistingTolerations, MaxTolerations)] :
        Len(s.containers) + Len(s.initContainers) + Len(s.ephemeralContainers) <= MaxContainers}

Namespaces == {"", "team-a", "team-b"}

Request(kind, ns, obj) == [UID |-> "uid-1", Kind |-> kind, Namespace |-> ns, Object |-> obj]

Body(request) == [parseable |-> TRUE, hasRequest |-> TRUE, request |-> request]

(* a Pod or a DaemonSet request for the same pod spec *)
Workload(kind, ns, objNs, spec, foreign) ==
    Body(Request(kind, ns, IF kind = "Pod" THEN PodDoc(objNs, spec, foreign)
                           ELSE DaemonSetDoc(objNs, spec, foreign)))

Kinds == {"Pod", "DaemonSet"}

(* a workload whose every image supports every platform *)
PlainSpec == [EmptyPodSpecJSON EXCEPT !.containers = <<ContainerJSON("nginx:latest")>>]

(* every arrangement of containers, without tolerations *)
ContainerBodies ==
    {Workload(k, "team-a", "team-a", s, FALSE) : k \in Kinds, s \in {x \in PodSpecs : Len(x.tolerations) = 0}}

(* every list of existing tolerations, on a single regular container *)
TolerationBodies ==
    {Workload(k, "team-a", "team-a", s, FALSE) :
        k \in Kinds,
        s \in {x \in PodSpecs : /\ Len(x.tolerations) > 0
                                /\ Len(x.containers) = 1
                                /\ Len(x.initContainers) + Len(x.ephemeralContainers) = 0}}

(* every pair of request namespace and object namespace, and a document    *)
(* with a field the API types do not know                                  *)
NamespaceBodies ==
    {Workload(k, ns, objNs, PlainSpec, FALSE) : k \in Kinds, ns \in Namespaces, objNs \in Namespaces}

ForeignBodies == {Workload(k, "team-a", "team-a", PlainSpec, TRUE) : k \in Kinds}

(* workloads that ask to be left alone: the skip-mutation annotation on    *)
(* the pod or the pod template, a namespace annotated as disabled, a       *)
(* namespace on the ignore list                                            *)
OptOutBodies ==
    {[Workload(k, "team-a", "team-a", PlainSpec, FALSE)
          EXCEPT !.request.Object.skipMutation = TRUE] : k \in Kinds}
    \cup {Workload(k, ns, ns, PlainSpec, FALSE) : k \in Kinds, ns \in {"quiet", "kube-system"}}

MalformedBodies ==
    {[parseable |-> FALSE, hasRequest |-> FALSE, request |-> NilRequest],
     [parseable |-> TRUE, hasRequest |-> FALSE, request |-> NilRequest],
     Body(Request("Deployment", "team-a", DaemonSetDoc("team-a", PlainSpec, FALSE))),
     Body(Request("Pod", "team-a", GarbageDoc)),
     Body(Request("DaemonSet", "team-a", GarbageDoc))}

Faults == {"marshal", "diff", "encode"}

(* A call's input: the request body, which collaborator fails if any, and  *)
(* what the Kubernetes client initialisation gives.                        *)
Input(body, fault, initOutcome) == [body |-> body, fault |-> fault, initOutcome |-> initOutcome]

Inputs ==
    {Input(b, "none", "ok") :
        b \in ContainerBodies \cup TolerationBodies \cup ForeignBodies \cup OptOutBodies}
    \cup {Input(b, "none", o) : b \in NamespaceBodies \cup MalformedBodies, o \in {"ok", "err"}}
    \cup {Input(Workload(k, "team-a", "team-a", PlainSpec, FALSE), f, "ok") :
            k \in Kinds, f \in Faults}

----------------------------------------------------------------------------
(* The state machine *)

Idle == [op |-> "idle"]

Record(body, fault, resubmitted, out) ==
    [op |-> "admit", body |-> body, fault |-> fault, resubmitted |-> resubmitted,
     review |-> out.review, err |-> out.err, trace |-> out.env.trace, calls |-> out.env.calls,
     resolved |-> out.env.resolved, supportedPlatforms |-> out.env.supportedPlatforms]

(* The cache when the process starts: empty, or, with a shared backend,    *)
(* what earlier lookups left there, which need not be what the registry    *)
(* says now.                                                               *)
WarmCache ==
    CacheSet(CacheSet(EmptyCache, CacheKey("legacy:1", "linux/arm64"), TRUE, cacheSuccessTTL),
             CacheKey("nginx:latest", "linux/amd64"), FALSE, cacheNegativeTTL)

InitialCaches == {EmptyCache, WarmCache}

Init ==
    /\ config \in Configs
    /\ cache \in InitialCaches
    /\ kubeClient = "uninit"
    /\ last = Idle

(* the webhook handles one admission request *)
Submit(in) ==
    /\ last.op = "idle"
    /\ \E out \in {ProcessAdmissionReview(config, cache, kubeClient, in.initOutcome, in.fault, in.body)} :
           /\ cache' = out.env.cache
           /\ kubeClient' = out.env.kubeClient
           /\ last' = Record(in.body, in.fault, FALSE, out)
    /\ UNCHANGED config

(* the API server applies the patch it got and the patched workload is     *)
(* submitted again, with nothing else having happened in between           *)
Resubmit ==
    /\ last.op = "admit"
    /\ ~last.resubmitted
    /\ last.review.set
    /\ last.review.Response.HasPatch
    /\ \E body \in {[last.body EXCEPT !.request.Object = ApplyPatch(@, last.review.Response.Patch)]} :
       \E out \in {ProcessAdmissionReview(config, cache, kubeClient, "err", "none", body)} :
           /\ cache' = out.env.cache
           /\ kubeClient' = out.env.kubeClient
           /\ last' = Record(body, "none", TRUE, out)
    /\ UNCHANGED config

Next ==
    \/ \E in \in Inputs : Submit(in)
    \/ Resubmit

Spec == Init /\ [][Next]_vars

----------------------------------------------------------------------------
(* What the properties read from the record of the last call *)

Handled == last.op = "admit"

(* the call returned a review and no error *)
Returned == Handled /\ last.err = ""

Response == last.review.Response

(* the JSON pod spec of the submitted workload, as the submitted kind places it *)
SubmittedSpec ==
    IF last.body.request.Kind = "Pod" THEN last.body.request.Object.spec
    ELSE last.body.request.Object.template

(* the images of the union of its regular, init and ephemeral containers *)
SubmittedImages ==
    {c.image : c \in Range(SubmittedSpec.containers) \cup Range(SubmittedSpec.initContainers)
                     \cup Range(SubmittedSpec.ephemeralContainers)}

(* what the DoesImageSupportPlatform calls of the last request returned for a pair *)
CallResults(img, p) ==
    {last.calls[i].result : i \in {k \in 1..Len(last.calls) :
                                      last.calls[k].image = img /\ last.calls[k].platform = p}}

TolerationsPath == IF last.body.request.Kind = "Pod" THEN "/spec/tolerations"
                   ELSE "/spec/template/spec/tolerations"

OtherTolerationsPath == IF last.body.request.Kind = "Pod" THEN "/spec/template/spec/tolerations"
                        ELSE "/spec/tolerations"

(* the values that the add operations of a patch put into the array at path *)
RECURSIVE AddedAt(_, _)
AddedAt(patch, path) ==
    IF Len(patch) = 0 THEN <<>>
    ELSE (IF Head(patch).op = "add" /\ Head(patch).path = path THEN Head(patch).value ELSE <<>>)
         \o AddedAt(Tail(patch), path)

Did(event) == \E i \in 1..Len(last.trace) : last.trace[i].e = event

----------------------------------------------------------------------------
(* C1: the platform resolver returns a configured platform if and only if  *)
(* DoesImageSupportPlatform returned true for that platform for the image  *)
(* of every regular, init and ephemeral container of the workload; one     *)
(* image without support removes the platform.  The cache then holds true  *)
(* for each of those pairs exactly when the platform was returned.         *)
C1_AllOrNothing ==
    (Handled /\ last.resolved) =>
        \A p \in Range(GetPlatforms(config)) :
            /\ Contains(last.supportedPlatforms, p)
                   <=> \A img \in SubmittedImages : CallResults(img, p) = {TRUE}
            /\ Contains(last.supportedPlatforms, p)
                   <=> \A img \in SubmittedImages :
                           LET got == CacheGet(cache, CacheKey(img, p)) IN got.ok /\ got.val

(* an init container and an ephemeral container with different support: one *)
(* of two configured platforms is returned                                  *)
C1_Witness ==
    /\ Handled /\ last.resolved
    /\ Len(SubmittedSpec.containers) = 0
    /\ Len(SubmittedSpec.initContainers) = 1
    /\ Len(SubmittedSpec.ephemeralContainers) = 1
    /\ Cardinality(SubmittedImages) = 2
    /\ GetPlatforms(config) = <<"linux/arm64", "linux/amd64">>
    /\ last.supportedPlatforms = <<"linux/arm64">>

(* C2: when no configured platform is supported by all containers the      *)
(* response is allowed=true with no patch and no patch type, and no diff   *)
(* was computed, for a Pod and for a DaemonSet.                            *)
C2_EmptySupportShortCircuit ==
    (Handled /\ last.resolved /\ Len(last.supportedPlatforms) = 0) =>
        /\ last.err = ""
        /\ last.review.set /\ Response.set
        /\ Response.Allowed
        /\ ~Response.HasPatch /\ Len(Response.Patch) = 0
        /\ Response.PatchType = ""
        /\ ~Did("jsonpatch.CreatePatch")

C2_Witness ==
    /\ Handled /\ last.resolved
    /\ last.body.request.Kind = "DaemonSet"
    /\ Len(last.supportedPlatforms) = 0
    /\ Len(last.calls) > 0
    /\ Response.set /\ ~Response.HasPatch

(* C3: every response returned without error has allowed=true, with or     *)
(* without a patch.                                                        *)
C3_AlwaysAllowed ==
    Returned => (last.review.set /\ Response.set /\ Response.Allowed)

C3_Witness ==
    /\ Returned
    /\ Response.HasPatch /\ Len(Response.Patch) > 0
    /\ Response.Allowed

(* C4: the call returns a review with a fully populated response and no    *)
(* error, or an error and no review at all; a returned response carries a  *)
(* patch type exactly when it carries a patch.                             *)
C4_AllOrNothingResult ==
    Handled =>
        /\ last.err # "" => last.review = NilReview
        /\ last.err = "" =>
              /\ last.review.set /\ Response.set
              /\ last.review.Request = last.body.request
              /\ Response.UID = last.body.request.UID
              /\ Response.Allowed
              /\ Response.HasPatch <=> Response.PatchType = "JSONPatch"
              /\ ~Response.HasPatch => (Response.PatchType = "" /\ Len(Response.Patch) = 0)

(* the diff fails after a supported platform was found *)
C4_Witness ==
    /\ Handled
    /\ last.fault = "diff"
    /\ Len(last.supportedPlatforms) > 0
    /\ last.err # ""
    /\ ~last.review.set

(* C5: a body that does not parse, a review without a request, a kind      *)
(* other than Pod or DaemonSet and an object that does not decode each     *)
(* make the call return an error, before any cache access, manifest        *)
(* inspection or Kubernetes API call.                                      *)
Malformed(body) ==
    \/ ~body.parseable
    \/ ~body.hasRequest
    \/ body.request.Kind \notin {"Pod", "DaemonSet"}
    \/ ~body.request.Object.decodable

C5_MalformedInputFatal ==
    (Handled /\ Malformed(last.body)) =>
        /\ last.err # ""
        /\ ~last.review.set
        /\ Len(last.trace) = 0
        /\ Len(last.calls) = 0
        /\ ~last.resolved

C5_Witness ==
    /\ Handled
    /\ last.body.hasRequest
    /\ last.body.request.Kind = "Pod"
    /\ ~last.body.request.Object.decodable
    /\ last.err # ""

(* C6: when at least one platform is supported, the patch is a JSONPatch   *)
(* that adds exactly the tolerations the configuration maps to the         *)
(* supported platforms and that the workload does not already hold, each   *)
(* once, to the toleration list of the Pod, or of the pod template for a   *)
(* DaemonSet.                                                              *)
MappedToSupported ==
    {MarshalToleration(config[i].Toleration) :
        i \in {k \in 1..Len(config) : config[k].Platform \in Range(last.supportedPlatforms)}}

C6_PatchAddsMappedTolerations ==
    (Returned /\ last.resolved /\ Len(last.supportedPlatforms) > 0) =>
        /\ Response.HasPatch
        /\ Response.PatchType = "JSONPatch"
        /\ LET added == AddedAt(Response.Patch, TolerationsPath)
           IN  /\ Range(added) = MappedToSupported \ Range(SubmittedSpec.tolerations)
               /\ NoDuplicates(added)
        /\ Len(AddedAt(Response.Patch, OtherTolerationsPath)) = 0

(* a DaemonSet for which both of two tolerations are added *)
C6_Witness ==
    /\ Returned
    /\ last.body.request.Kind = "DaemonSet"
    /\ Len(last.supportedPlatforms) = 2
    /\ Len(AddedAt(Response.Patch, "/spec/template/spec/tolerations")) = 2

(* C7: re-submitting the workload with the returned patch applied, under   *)
(* the same configuration and cache, yields a patch that adds no           *)
(* toleration.                                                             *)
C7_ResubmissionAddsNothing ==
    (Handled /\ last.resubmitted) =>
        /\ last.err = ""
        /\ Len(AddedAt(Response.Patch, "/spec/tolerations")) = 0
        /\ Len(AddedAt(Response.Patch, "/spec/template/spec/tolerations")) = 0

(* the re-submitted workload carries a toleration that the first patch added *)
C7_Witness ==
    /\ Handled /\ last.resubmitted
    /\ Response.HasPatch
    /\ \E t \in Range(SubmittedSpec.tolerations) : t \in MappedToSupported
    /\ Len(SubmittedSpec.tolerations) > MaxTolerations

----------------------------------------------------------------------------
(* The toleration patcher on its own: a workload with some toleration list *)
(* and a supported-platform list as the resolver produces them, to which   *)
(* the patcher is applied, and applied again.                              *)

MaxExisting == 2

(* tolerations a workload may carry before the patcher runs *)
TolAmdTimed == Toleration("arch", "amd64", "Equal", "NoExecute", 300)
TolDedicated == Toleration("dedicated", "", "Exists", "", 0)

WorkloadTolerations == {TolArm, TolAmdTimed, TolDedicated, MultiarchToleration}

(* the resolver's output: the configured platforms, in order, that are supported *)
ResolverOutput(cfg, supported) ==
    SelectSeq(GetPlatforms(cfg), LAMBDA p : p \in supported)

Given(tolerations, supportedPlatforms) ==
    [op |-> "given", target |-> "none", original |-> tolerations,
     supportedPlatforms |-> supportedPlatforms, once |-> tolerations,
     tolerations |-> tolerations, applied |-> 0]

Applied(target, tolerations) ==
    [last EXCEPT !.op = "patch", !.target = target,
                 !.once = IF last.applied = 0 THEN tolerations ELSE @,
                 !.tolerations = tolerations, !.applied = @ + 1]

PodWith(tolerations) ==
    [Namespace |-> "",
     Spec |-> [UnmarshalPodSpec(EmptyPodSpecJSON) EXCEPT !.Tolerations = tolerations]]

TemplateWith(tolerations) ==
    [Spec |-> [UnmarshalPodSpec(EmptyPodSpecJSON) EXCEPT !.Tolerations = tolerations]]

InitPatcher ==
    /\ config \in Configs
    /\ cache = EmptyCache
    /\ kubeClient = "uninit"
    /\ \E tolerations \in SeqsUpTo(WorkloadTolerations, MaxExisting), supported \in SUBSET Platforms :
           last = Given(tolerations, ResolverOutput(config, supported))

CanApply(target) == last.applied < 2 /\ last.target \in {"none", target}

PatchPod ==
    /\ CanApply("pod")
    /\ last' = Applied("pod",
                   AddTolerationsToPod(config, PodWith(last.tolerations),
                                       last.supportedPlatforms).Spec.Tolerations)
    /\ UNCHANGED <<config, cache, kubeClient>>

PatchPodTemplate ==
    /\ CanApply("template")
    /\ last' = Applied("template",
                   AddTolerationsToPodTemplate(config, TemplateWith(last.tolerations),
                                               last.supportedPlatforms).Spec.Tolerations)
    /\ UNCHANGED <<config, cache, kubeClient>>

PatchMultiarch ==
    /\ CanApply("multiarch")
    /\ last' = Applied("multiarch",
                   AddMultiarchTolerationToPod(PodWith(last.tolerations)).Spec.Tolerations)
    /\ UNCHANGED <<config, cache, kubeClient>>

NextPatcher == PatchPod \/ PatchPodTemplate \/ PatchMultiarch

SpecPatcher == InitPatcher /\ [][NextPatcher]_vars

Patched == last.op = "patch"

(* what the patcher put behind the original list *)
Appended == SubSeq(last.tolerations, Len(last.original) + 1, Len(last.tolerations))

(* the tolerations the configuration maps to the supported platforms *)
Wanted == Range(GetTolerationsForPlatforms(config, last.supportedPlatforms))

SameFourFields(a, b) ==
    /\ a.Key = b.Key /\ a.Value = b.Value
    /\ a.Operator = b.Operator /\ a.Effect = b.Effect

(* C8: AddTolerationsToPod and AddTolerationsToPodTemplate applied twice   *)
(* with the same configuration and supported platforms leave the same list *)
(* as applied once.                                                        *)
C8_PatcherIdempotent ==
    (Patched /\ last.target \in {"pod", "template"} /\ last.applied = 2) =>
        last.tolerations = last.once

(* the first application appended two tolerations *)
C8_Witness ==
    /\ Patched /\ last.target = "template" /\ last.applied = 2
    /\ Len(last.once) = Len(last.original) + 2
    /\ Len(last.original) > 0

(* C9, as stated: a mapped toleration is not appended when the list holds  *)
(* an element with the same key, value, operator and effect.               *)
C9_FourFieldIdentity ==
    (Patched /\ last.target \in {"pod", "template"}) =>
        \A t \in Wanted :
            (\E e \in Range(last.original) : SameFourFields(e, t)) => ~Contains(Appended, t)

(* C9, as the code decides it: a mapped toleration is appended exactly     *)
(* when the list holds no element equal to it in key, value, operator,     *)
(* effect and tolerationSeconds; an element that has the same four fields  *)
(* and a tolerationSeconds does not keep it from being appended.           *)
C9_WholeValueIdentity ==
    (Patched /\ last.target \in {"pod", "template"}) =>
        \A t \in Wanted :
            /\ Contains(last.original, t) => ~Contains(Appended, t)
            /\ ~Contains(last.original, t) => Contains(Appended, t)

(* the list holds the mapped toleration with a tolerationSeconds, and the  *)
(* mapped toleration is appended behind it                                 *)
C9_Witness ==
    /\ Patched /\ last.target = "pod" /\ last.applied = 1
    /\ Contains(last.original, TolAmdTimed)
    /\ TolAmd \in Wanted
    /\ Contains(Appended, TolAmd)

(* C10: the patcher only appends: the original toleration list is a prefix *)
(* of the resulting list, for AddTolerationsToPod,                         *)
(* AddTolerationsToPodTemplate and AddMultiarchTolerationToPod.            *)
C10_AppendOnly ==
    Patched => IsPrefix(last.original, last.tolerations)

C10_Witness ==
    /\ Patched /\ last.target = "pod"
    /\ Len(last.original) = 2
    /\ last.original[1] # last.original[2]
    /\ Len(Appended) > 0

----------------------------------------------------------------------------
(* what a lookup for a pair answers after the request: the cached result,  *)
(* or, for a pair the cache does not hold, what the registry says          *)
Answer(img, p) ==
    LET got == CacheGet(cache, CacheKey(img, p))
    IN  IF got.ok THEN got.val ELSE p \in GetManifest(img, <<>>).platforms

(* C11: the supported-platform result is the configured platform sequence  *)
(* with the platforms that some image lacks left out: configuration order, *)
(* whatever the order of the containers and of the lookups.                *)
C11_ConfigurationOrder ==
    (Handled /\ last.resolved) =>
        /\ last.supportedPlatforms
              = SelectSeq(GetPlatforms(config), LAMBDA p : p \in Range(last.supportedPlatforms))
        /\ last.supportedPlatforms
              = SelectSeq(GetPlatforms(config), LAMBDA p : \A img \in SubmittedImages : Answer(img, p))

(* containers in two lists, both platforms supported, and the              *)
(* configuration names linux/amd64 before linux/arm64                      *)
C11_Witness ==
    /\ Handled /\ last.resolved
    /\ GetPlatforms(config) = <<"linux/amd64", "linux/arm64">>
    /\ last.supportedPlatforms = <<"linux/amd64", "linux/arm64">>
    /\ Len(SubmittedSpec.ephemeralContainers) = 1
    /\ Len(SubmittedSpec.initContainers) = 1

----------------------------------------------------------------------------
(* The same request handled twice by the same process: nothing happens     *)
(* between the two calls, so the second call finds the configuration       *)
(* unchanged and the cache as the first call left it, which is the cache   *)
(* the first call found whenever that call had a hit for every lookup.     *)

Repeated(first, cacheBefore, out) ==
    [op |-> "repeat", body |-> first.body, fault |-> first.fault,
     first |-> [review |-> first.review, err |-> first.err],
     second |-> [review |-> out.review, err |-> out.err],
     cacheBefore |-> cacheBefore, trace |-> out.env.trace]

Repeat ==
    /\ last.op = "admit"
    /\ \E out \in {ProcessAdmissionReview(config, cache, kubeClient, "ok", last.fault, last.body)} :
           /\ cache' = out.env.cache
           /\ kubeClient' = out.env.kubeClient
           /\ last' = Repeated(last, cache, out)
    /\ UNCHANGED config

NextRepeat ==
    \/ \E in \in Inputs : Submit(in)
    \/ Repeat

SpecRepeat == Init /\ [][NextRepeat]_vars

----------------------------------------------------------------------------
(* The cache under lookups and passing time: DoesImageSupportPlatform is   *)
(* called for image/platform pairs while the clock advances, with the      *)
(* default cache size and with a cache configured for SmallCacheSize       *)
(* entries.                                                                *)

MaxLookups == 3
SmallCacheSize == 1

(* the clock advances to the time of a TTL, or a little beyond the last one *)
Horizon == cacheSuccessTTL + cacheFailureTTL

ClockPoints == {cacheFailureTTL, cacheNegativeTTL, cacheSuccessTTL, Horizon}

NoWrites == [k \in {} |-> [name |-> "", platform |-> "", value |-> FALSE, ttl |-> 0, age |-> 0]]

(* the cache.Set events of a trace *)
Sets(trace) == SelectSeq(trace, LAMBDA ev : ev.e = "cache.Set")

Inspections(trace) == SelectSeq(trace, LAMBDA ev : ev.e = "GetManifest")

(* written: for each key, the last result a lookup stored and the time since *)
Looked(name, platform, before, r) ==
    [op |-> "lookup", now |-> last.now, lookups |-> last.lookups + 1,
     name |-> name, platform |-> platform, val |-> r.val, trace |-> r.st.trace,
     before |-> before,
     written |-> LET sets == Sets(r.st.trace)
                 IN  [k \in DOMAIN last.written \cup {sets[i].key : i \in 1..Len(sets)} |->
                         IF \E i \in 1..Len(sets) : sets[i].key = k
                         THEN LET ev == sets[CHOOSE i \in 1..Len(sets) : sets[i].key = k]
                              IN  [name |-> name, platform |-> platform, value |-> ev.value,
                                   ttl |-> ev.ttl, age |-> 0]
                         ELSE last.written[k]]]

InitCache ==
    /\ config = <<[Platform |-> "linux/arm64", Toleration |-> TolArm]>>
    /\ cache \in {NewInMemoryCache(SmallCacheSize), NewInMemoryCache(cacheSizeDefault)}
    /\ kubeClient = "uninit"
    /\ last = [op |-> "boot", now |-> 0, lookups |-> 0, name |-> "", platform |-> "",
               val |-> FALSE, trace |-> <<>>, before |-> cache, written |-> NoWrites]

Lookup(name, platform) ==
    /\ last.lookups < MaxLookups
    /\ LET r == DoesImageSupportPlatform([cache |-> cache, trace |-> <<>>, calls |-> <<>>],
                                         name, platform, <<>>)
       IN  /\ cache' = r.st.cache
           /\ last' = Looked(name, platform, cache, r)
    /\ UNCHANGED <<config, kubeClient>>

Tick(t) ==
    /\ last.now < t
    /\ LET d == t - last.now
       IN  /\ cache' = CacheAfter(cache, d)
           /\ last' = [last EXCEPT !.op = "tick", !.now = t,
                                   !.written = [k \in DOMAIN @ |-> [@[k] EXCEPT !.age = @ + d]]]
    /\ UNCHANGED <<config, kubeClient>>

NextCache ==
    \/ \E name \in Images, platform \in Platforms : Lookup(name, platform)
    \/ \E t \in ClockPoints : Tick(t)

SpecCache == InitCache /\ [][NextCache]_vars

(* the key is in the cache and has not expired *)
Held(c, key) == key \in DOMAIN c.entries /\ ~Expired(c.entries[key])

(* what the registry says for a pair: "supported", "unsupported" (a list   *)
(* without the platform) or "failure" (no list to inspect)                 *)
Finding(name, platform) ==
    IF Registry[name].kind # "list" THEN "failure"
    ELSE IF platform \in Registry[name].platforms THEN "supported"
    ELSE "unsupported"

Lifetime(finding) ==
    CASE finding = "supported" -> cacheSuccessTTL
      [] finding = "unsupported" -> cacheNegativeTTL
      [] OTHER -> cacheFailureTTL

(* no more keys were ever stored than the cache has room for *)
NothingEvicted == Cardinality(DOMAIN last.written) <= cache.size

(* no stored result is retrievable once its TTL has passed: 24h for        *)
(* supported, 6h for unsupported, 5m for a failed lookup                   *)
ExpiresInTime ==
    \A k \in DOMAIN last.written :
        LET w == last.written[k]
        IN  CacheGet(cache, k).ok => w.age < Lifetime(Finding(w.name, w.platform))

(* C13, as stated: a supported result stays retrievable until 24h have     *)
(* passed, an unsupported one expires within 6h, a failed lookup within 5m *)
C13_TTLPartition ==
    /\ ExpiresInTime
    /\ \A k \in DOMAIN last.written :
           LET w == last.written[k]
           IN  (w.value /\ w.age < cacheSuccessTTL) => CacheGet(cache, k) = [val |-> TRUE, ok |-> TRUE]

(* C13, as the code has it: no result outlives its TTL, and a supported    *)
(* result stays retrievable until 24h have passed as long as the cache was *)
(* never given more keys than its size.                                    *)
C13_TTLPartitionWithinCapacity ==
    /\ ExpiresInTime
    /\ \A k \in DOMAIN last.written :
           LET w == last.written[k]
           IN  (w.value /\ w.age < cacheSuccessTTL /\ NothingEvicted)
                   => CacheGet(cache, k) = [val |-> TRUE, ok |-> TRUE]

(* a supported result is still there shortly before 24h, after an          *)
(* unsupported one and a failure have gone                                 *)
C13_Witness ==
    /\ last.now = cacheNegativeTTL
    /\ NothingEvicted
    /\ \E k \in DOMAIN last.written :
           last.written[k].value /\ last.written[k].age = cacheNegativeTTL /\ CacheGet(cache, k).ok
    /\ \E k \in DOMAIN last.written :
           ~last.written[k].value /\ last.written[k].ttl = cacheNegativeTTL /\ ~CacheGet(cache, k).ok
    /\ \E k \in DOMAIN last.written :
           last.written[k].ttl = cacheFailureTTL /\ ~CacheGet(cache, k).ok

(* the lookup that was just made, and whether it found its key *)
LookedUp == last.op = "lookup"

LookupKey == last.name \o ":" \o last.platform

WasHit == Held(last.before, LookupKey)

(* C14: on a cache miss DoesImageSupportPlatform writes exactly one cache  *)
(* entry, under image ":" platform, and returns the value it wrote: false  *)
(* with the failure TTL when there is no manifest list to inspect, true    *)
(* with the success TTL when the list has the platform, false with the     *)
(* negative TTL otherwise; the TTL is positive.                            *)
C14_MissWritesOnce ==
    (LookedUp /\ ~WasHit) =>
        LET sets == Sets(last.trace)
            finding == Finding(last.name, last.platform)
        IN  /\ Len(sets) = 1
            /\ Len(Inspections(last.trace)) = 1
            /\ sets[1].key = LookupKey
            /\ sets[1].value = last.val
            /\ sets[1].value = (finding = "supported")
            /\ sets[1].ttl = Lifetime(finding)
            /\ sets[1].ttl > 0
            /\ LookupKey \in DOMAIN cache.entries
            /\ cache.entries[LookupKey] = [value |-> last.val, ttl |-> sets[1].ttl, age |-> 0]
            /\ \A k \in DOMAIN cache.entries \ {LookupKey} :
                   k \in DOMAIN last.before.entries /\ cache.entries[k] = last.before.entries[k]

(* a list without the platform: false is written with the negative TTL,    *)
(* over an entry for the same key that had expired                         *)
C14_Witness ==
    /\ LookedUp /\ ~WasHit
    /\ LookupKey \in DOMAIN last.before.entries
    /\ Finding(last.name, last.platform) = "unsupported"
    /\ ~last.val
    /\ Sets(last.trace)[1].ttl = cacheNegativeTTL

(* C15: on a cache hit DoesImageSupportPlatform returns the cached value,  *)
(* true or false, without inspecting a manifest and without writing to the *)
(* cache.                                                                  *)
C15_HitReturnsCached ==
    (LookedUp /\ WasHit) =>
        /\ last.val = last.before.entries[LookupKey].value
        /\ last.trace = <<[e |-> "cache.Get", key |-> LookupKey]>>
        /\ cache = last.before

(* a hit on a false that was cached some time ago *)
C15_Witness ==
    /\ LookedUp /\ WasHit
    /\ ~last.val
    /\ last.before.entries[LookupKey].age > 0
    /\ Len(last.trace) = 1

----------------------------------------------------------------------------
(* the request inspected the image for the platform and the registry had   *)
(* no manifest list to give                                                *)
InspectionFailed(img, p) ==
    /\ Registry[img].kind # "list"
    /\ \E i \in 1..Len(last.trace) :
           last.trace[i].e = "cache.Set" /\ last.trace[i].key = img \o ":" \o p

(* C16: a failed inspection of the image of one container is not fatal:    *)
(* the request completes with allowed=true, the platform is not among the  *)
(* supported platforms of the workload, and the patch, if any, adds only   *)
(* tolerations of platforms that are.                                      *)
C16_LookupFailureNotFatal ==
    Handled =>
        \A img \in SubmittedImages, p \in Platforms :
            InspectionFailed(img, p) =>
                /\ last.err = ""
                /\ last.review.set /\ Response.Allowed
                /\ ~Contains(last.supportedPlatforms, p)
                /\ Range(AddedAt(Response.Patch, TolerationsPath)) \subseteq MappedToSupported
                /\ [image |-> img, platform |-> p, result |-> FALSE] \in Range(last.calls)

(* the inspection for one platform fails and the workload still gets the   *)
(* toleration of the other                                                 *)
C16_Witness ==
    /\ Handled
    /\ \E img \in SubmittedImages : InspectionFailed(img, "linux/amd64")
    /\ last.supportedPlatforms = <<"linux/arm64">>
    /\ last.err = ""
    /\ Response.HasPatch

----------------------------------------------------------------------------
(* the request carries the opt-out signal: the annotation on the workload, *)
(* or a namespace that is disabled or ignored                              *)
OptedOut(body) ==
    LET namespace == IF body.request.Namespace = "" THEN body.request.Object.namespace
                     ELSE body.request.Namespace
    IN  \/ body.request.Object.skipMutation
        \/ namespace \in NamespacesToIgnore
        \/ (namespace \in DOMAIN ClusterNamespaces /\ ClusterNamespaces[namespace] = "true")

(* C17: a workload that carries the opt-out signal gets allowed=true and   *)
(* no patch, even if every image supports a configured platform.           *)
C17_OptOutHonoured ==
    (Handled /\ ~Malformed(last.body) /\ OptedOut(last.body)) =>
        /\ last.err = ""
        /\ last.review.set /\ Response.Allowed
        /\ ~Response.HasPatch

----------------------------------------------------------------------------
(* registry_auth.go under concurrent requests: every request goroutine     *)
(* calls GetRegistryHosts or IsNamespaceDisabled, which go through         *)
(* getKubeClient and kubeClientOnce. getKubeClient is modelled step by     *)
(* step; what follows it in the caller is one step.                        *)

NumProcs == 2

MaxCalls == 3

Procs == 1..NumProcs

KubeCallers == {"GetRegistryHosts", "IsNamespaceDisabled"}

KubeNamespaces == {"", "team-a", "quiet"}

(* a start with whatever guards the initialisation only by a done flag *)
OnceDoUnguarded(once) == IF once = "done" THEN "skip" ELSE "run"

(* sync.Once.Do: the first caller runs the function, a caller that arrives *)
(* while it runs waits for it, a caller after it skips it                  *)
OnceDo(once) ==
    CASE once = "fresh" -> "run"
      [] once = "running" -> "wait"
      [] once = "done" -> "skip"

NoResult ==
    [done |-> FALSE, fn |-> "", ns |-> "", seen |-> "", how |-> "", would |-> "",
     nilHosts |-> FALSE, disabled |-> FALSE, trace |-> <<>>]

(* what the caller does once getKubeClient has returned the pair seen *)
CallerResult(fn, ns, seen, initOutcome) ==
    IF fn = "GetRegistryHosts"
    THEN LET r == GetRegistryHosts(HealthyCluster, KeyOrder, seen, initOutcome, <<>>, ns,
                                   [ImagePullSecrets |-> <<>>, ServiceAccountName |-> ""])
         IN  [done |-> TRUE, fn |-> fn, ns |-> ns, seen |-> seen, how |-> "", would |-> initOutcome,
              nilHosts |-> r.nilHosts /\ r.hosts = <<>>, disabled |-> FALSE, trace |-> r.trace]
    ELSE LET r == IsNamespaceDisabled(HealthyCluster, seen, initOutcome, <<>>, ns)
         IN  [done |-> TRUE, fn |-> fn, ns |-> ns, seen |-> seen, how |-> "", would |-> initOutcome,
              nilHosts |-> FALSE, disabled |-> r.disabled, trace |-> r.trace]

InitKube ==
    /\ config = <<[Platform |-> "linux/arm64", Toleration |-> TolArm]>>
    /\ cache = EmptyCache
    /\ kubeClient = "uninit"
    /\ last = [op |-> "boot", once |-> "fresh",
               pc |-> [p \in Procs |-> "idle"], fn |-> [p \in Procs |-> ""],
               ns |-> [p \in Procs |-> ""], seen |-> [p \in Procs |-> ""],
               how |-> [p \in Procs |-> ""],
               calls |-> 0, inits |-> 0, failures |-> 0, contended |-> FALSE,
               observed |-> {}, res |-> NoResult]

(* a request goroutine enters GetRegistryHosts or IsNamespaceDisabled; an  *)
(* empty namespace returns before getKubeClient                            *)
Call(p, fn, ns) ==
    /\ last.pc[p] = "idle"
    /\ last.calls < MaxCalls
    /\ last' = IF ns = ""
               THEN [last EXCEPT !.op = "return", !.calls = @ + 1,
                                 !.res = [CallerResult(fn, ns, kubeClient, "err")
                                            EXCEPT !.seen = ""]]
               ELSE [last EXCEPT !.op = "call", !.calls = @ + 1, !.pc[p] = "do",
                                 !.fn[p] = fn, !.ns[p] = ns]
    /\ UNCHANGED <<config, cache, kubeClient>>

(* kubeClientOnce.Do: the caller that finds the Once fresh runs the function *)
DoRun(p) ==
    /\ last.pc[p] = "do"
    /\ OnceDo(last.once) = "run"
    /\ last' = [last EXCEPT !.op = "run", !.once = "running", !.pc[p] = "init",
                            !.how[p] = "ran"]
    /\ UNCHANGED <<config, cache, kubeClient>>

DoWait(p) ==
    /\ last.pc[p] = "do"
    /\ OnceDo(last.once) = "wait"
    /\ last' = [last EXCEPT !.op = "wait", !.pc[p] = "waiting", !.how[p] = "waited",
                            !.contended = TRUE]
    /\ UNCHANGED <<config, cache, kubeClient>>

DoWake(p) ==
    /\ last.pc[p] = "waiting"
    /\ last.once = "done"
    /\ last' = [last EXCEPT !.op = "wake", !.pc[p] = "read"]
    /\ UNCHANGED <<config, cache, kubeClient>>

DoSkip(p) ==
    /\ last.pc[p] = "do"
    /\ OnceDo(last.once) = "skip"
    /\ last' = [last EXCEPT !.op = "skip", !.pc[p] = "read", !.how[p] = "skipped"]
    /\ UNCHANGED <<config, cache, kubeClient>>

(* the function given to Do: rest.InClusterConfig and kubernetes.NewForConfig *)
(* succeed or fail, and kubeClient / kubeClientErr are assigned               *)
RunInit(p, initOutcome) ==
    /\ last.pc[p] = "init"
    /\ kubeClient' = initOutcome
    /\ last' = [last EXCEPT !.op = "init", !.pc[p] = "initdone", !.inits = @ + 1,
                            !.failures = IF initOutcome = "err" THEN @ + 1 ELSE @]
    /\ UNCHANGED <<config, cache>>

(* Do returns in the caller that ran the function: the Once is done *)
OnceDone(p) ==
    /\ last.pc[p] = "initdone"
    /\ last' = [last EXCEPT !.op = "done", !.once = "done", !.pc[p] = "read"]
    /\ UNCHANGED <<config, cache, kubeClient>>

(* return kubeClient, kubeClientErr *)
ReturnClient(p) ==
    /\ last.pc[p] = "read"
    /\ last' = [last EXCEPT !.op = "read", !.pc[p] = "use", !.seen[p] = kubeClient,
                            !.observed = @ \cup {kubeClient}]
    /\ UNCHANGED <<config, cache, kubeClient>>

(* the rest of the caller; initOutcome is what an initialisation would give now *)
Finish(p, initOutcome) ==
    /\ last.pc[p] = "use"
    /\ last' = [last EXCEPT !.op = "return", !.pc[p] = "idle", !.fn[p] = "", !.ns[p] = "",
                            !.seen[p] = "", !.how[p] = "",
                            !.res = [CallerResult(last.fn[p], last.ns[p], last.seen[p],
                                                  initOutcome) EXCEPT !.how = last.how[p]]]
    /\ UNCHANGED <<config, cache, kubeClient>>

NextKube ==
    \/ \E p \in Procs, fn \in KubeCallers, ns \in KubeNamespaces : Call(p, fn, ns)
    \/ \E p \in Procs : DoRun(p)
    \/ \E p \in Procs : DoWait(p)
    \/ \E p \in Procs : DoWake(p)
    \/ \E p \in Procs : DoSkip(p)
    \/ \E p \in Procs, initOutcome \in {"ok", "err"} : RunInit(p, initOutcome)
    \/ \E p \in Procs : OnceDone(p)
    \/ \E p \in Procs : ReturnClient(p)
    \/ \E p \in Procs, initOutcome \in {"ok", "err"} : Finish(p, initOutcome)

SpecKube == InitKube /\ [][NextKube]_vars

(* C18: under any interleaving of concurrent requests the client           *)
(* initialisation runs at most once, exactly once when a caller of         *)
(* getKubeClient has returned, and every caller that has returned got the  *)
(* same client and the same error, the ones the initialisation assigned.   *)
C18_InitialisedOnce ==
    /\ last.inits <= 1
    /\ last.observed # {} => last.inits = 1
    /\ Cardinality(last.observed) <= 1
    /\ last.observed \subseteq {kubeClient} \ {"uninit"}

(* two requests were inside getKubeClient together, one waited for the     *)
(* other's initialisation, and both have returned                          *)
C18_Witness ==
    /\ last.contended
    /\ last.inits = 1
    /\ \A p \in Procs : last.pc[p] \in {"use", "idle"}
    /\ \E p \in Procs : last.pc[p] = "use" /\ last.seen[p] = kubeClient

(* C19: a failed client initialisation is sticky: it is not run again, and *)
(* every later GetRegistryHosts call returns no credentials and every      *)
(* later IsNamespaceDisabled call returns false, without a call to the     *)
(* Kubernetes API, even when an initialisation would succeed by then.      *)
C19_FailureSticky ==
    last.failures >= 1 =>
        /\ last.inits = 1
        /\ kubeClient = "err"
        /\ (last.res.done /\ last.res.seen # "") =>
              /\ last.res.seen = "err"
              /\ last.res.trace = <<>>
              /\ last.res.fn = "GetRegistryHosts" => last.res.nilHosts
              /\ last.res.fn = "IsNamespaceDisabled" => ~last.res.disabled

(* a call made after the failure, when an initialisation would succeed,    *)
(* reports the disabled namespace as not disabled                          *)
C19_Witness ==
    /\ last.failures = 1
    /\ last.calls = MaxCalls
    /\ last.op = "return"
    /\ last.res.fn = "IsNamespaceDisabled" /\ last.res.ns = "quiet"
    /\ last.res.seen = "err"
    /\ last.res.how = "skipped" /\ last.res.would = "ok"
    /\ ~last.res.disabled

----------------------------------------------------------------------------
(* Contexts. One admission request is followed through the calls it makes  *)
(* outside the process, in the order ProcessAdmissionReview makes them, one *)
(* at a time. "request" is the context that came with the request,         *)
(* "background" is context.Background(), "none" a call that takes no       *)
(* context and does not leave the process.                                 *)

registryRequestTimeout == 10

redisRequestTimeout == 5

(* the handler hands the context of the HTTP request to ProcessAdmissionReview *)
mutateHandlerContext == "request"

(* an inspection that is given a context of its own *)
GetManifestContextDetached(ctx) == [parent |-> "background", timeout |-> registryRequestTimeout]

(* GetManifest: context.WithTimeout(ctx, registryRequestTimeout) *)
GetManifestContext(ctx) == [parent |-> ctx, timeout |-> registryRequestTimeout]

(* ServiceAccounts.Get, Secrets.Get and Namespaces.Get are given ctx as it is *)
KubeGetContext(ctx) == [parent |-> ctx, timeout |-> 0]

(* the Redis cache: context.WithTimeout(context.Background(), 5*time.Second) *)
CacheContext == [parent |-> "background", timeout |-> redisRequestTimeout]

KubeCalls == {"ServiceAccounts.Get", "Secrets.Get", "Namespaces.Get"}

CacheCalls == {"cache.Get", "cache.Set"}

(* the context a call of the request runs under, ctx being the one         *)
(* ProcessAdmissionReview got and passes down unchanged                    *)
CallContext(e, ctx) ==
    CASE e = "GetManifest" -> GetManifestContext(ctx)
      [] e \in KubeCalls -> KubeGetContext(ctx)
      [] e \in CacheCalls -> CacheContext
      [] OTHER -> [parent |-> "none", timeout |-> 0]

InFlight(ev, ctx) == [ev |-> ev, context |-> CallContext(ev.e, ctx)]

(* one platform configured, and two *)
ContextConfigs ==
    {<<[Platform |-> "linux/arm64", Toleration |-> TolArm]>>,
     <<[Platform |-> "linux/amd64", Toleration |-> TolAmd],
       [Platform |-> "linux/arm64", Toleration |-> TolArm]>>}

InitContext ==
    /\ config \in ContextConfigs
    /\ cache \in InitialCaches
    /\ kubeClient = "uninit"
    /\ last = Idle

(* the handler reads the body and calls ProcessAdmissionReview; todo is    *)
(* what the request does outside the process if nothing interrupts it      *)
Receive(in) ==
    /\ last.op = "idle"
    /\ LET out == ProcessAdmissionReview(config, cache, kubeClient, in.initOutcome, in.fault,
                                         in.body)
       IN  last' = [op |-> "receive", ctx |-> "live", passed |-> mutateHandlerContext,
                    initOutcome |-> in.initOutcome, todo |-> out.env.trace,
                    inflight |-> <<>>, diverged |-> FALSE, inspectFailed |-> FALSE,
                    abortedCall |-> ""]
    /\ UNCHANGED <<config, cache, kubeClient>>

Serving == last.op \notin {"idle", "responded"}

ContextDone(context) == context.parent = "request" /\ last.ctx # "live"

(* the next call goes out *)
Begin ==
    /\ Serving /\ last.inflight = <<>> /\ last.todo # <<>>
    /\ ~ContextDone(CallContext(Head(last.todo).e, last.passed))
    /\ last' = [last EXCEPT !.op = "begin", !.todo = Tail(@),
                            !.inflight = <<InFlight(Head(last.todo), last.passed)>>]
    /\ UNCHANGED <<config, cache, kubeClient>>

(* a call under a context that is done already returns the context's error *)
(* without going out                                                       *)
FailFast ==
    /\ Serving /\ last.inflight = <<>> /\ last.todo # <<>>
    /\ ContextDone(CallContext(Head(last.todo).e, last.passed))
    /\ last' = [last EXCEPT !.op = "failfast", !.todo = Tail(@), !.diverged = TRUE,
                            !.inspectFailed = (Head(last.todo).e = "GetManifest")]
    /\ UNCHANGED <<config, cache, kubeClient>>

(* after a call has failed the request makes only some of the calls it     *)
(* would have made: a lookup that failed ends the platform's loop          *)
Skip ==
    /\ Serving /\ last.inflight = <<>> /\ last.todo # <<>>
    /\ last.diverged /\ ~last.inspectFailed
    /\ last' = [last EXCEPT !.op = "skip", !.todo = Tail(@)]
    /\ UNCHANGED <<config, cache, kubeClient>>

(* the call in flight returns; a cache write after a failed inspection     *)
(* stores the failure                                                      *)
Complete ==
    /\ Serving /\ last.inflight # <<>>
    /\ LET ev == last.inflight[1].ev
       IN  /\ cache' = IF ev.e # "cache.Set" THEN cache
                       ELSE IF last.inspectFailed
                       THEN CacheSet(cache, ev.key, FALSE, cacheFailureTTL)
                       ELSE CacheSet(cache, ev.key, ev.value, ev.ttl)
           /\ kubeClient' = IF ev.e = "rest.InClusterConfig" THEN last.initOutcome
                            ELSE kubeClient
           /\ last' = [last EXCEPT !.op = "complete", !.inflight = <<>>,
                                   !.inspectFailed = IF ev.e = "cache.Set" THEN FALSE ELSE @]
    /\ UNCHANGED config

(* the deadline of the call's own context passes *)
TimeOut ==
    /\ Serving /\ last.inflight # <<>>
    /\ last.inflight[1].context.timeout > 0
    /\ last' = [last EXCEPT !.op = "timeout", !.inflight = <<>>, !.diverged = TRUE,
                            !.inspectFailed = (last.inflight[1].ev.e = "GetManifest")]
    /\ UNCHANGED <<config, cache, kubeClient>>

(* the request's context is cancelled or its deadline passes: a call in    *)
(* flight under it or under a context derived from it is aborted           *)
Cancel(why) ==
    /\ Serving /\ last.ctx = "live"
    /\ LET hit == last.inflight # <<>> /\ last.inflight[1].context.parent = "request"
       IN  last' = [last EXCEPT !.op = "cancel", !.ctx = why,
                        !.inflight = IF hit THEN <<>> ELSE @,
                        !.diverged = IF hit THEN TRUE ELSE @,
                        !.inspectFailed = IF hit THEN last.inflight[1].ev.e = "GetManifest"
                                          ELSE @,
                        !.abortedCall = IF hit THEN last.inflight[1].ev.e ELSE @]
    /\ UNCHANGED <<config, cache, kubeClient>>

(* ProcessAdmissionReview returns and the handler writes the response *)
Respond ==
    /\ Serving /\ last.inflight = <<>> /\ last.todo = <<>>
    /\ last' = [last EXCEPT !.op = "responded"]
    /\ UNCHANGED <<config, cache, kubeClient>>

NextContext ==
    \/ \E in \in Inputs : Receive(in)
    \/ Begin
    \/ FailFast
    \/ Skip
    \/ Complete
    \/ TimeOut
    \/ \E why \in {"cancelled", "deadline"} : Cancel(why)
    \/ Respond

SpecContext == InitContext /\ [][NextContext]_vars

----------------------------------------------------------------------------
(* decodeDockerAuth on the auth blobs a docker configuration can hold *)

MaxName == 2

MaxPassword == 3

(* "u" and "v"; "p" and ":" *)
NameBytes == {117, 118}

PasswordBytes == {112} \cup Range(Colon)

InitDecode ==
    /\ config = <<[Platform |-> "linux/arm64", Toleration |-> TolArm]>>
    /\ cache = EmptyCache
    /\ kubeClient = "uninit"
    /\ \E username \in SeqsUpTo(NameBytes, MaxName), password \in SeqsUpTo(PasswordBytes, MaxPassword) :
          last = [op |-> "input", username |-> username, password |-> password,
                  encoded |-> <<>>, out |-> [user |-> <<>>, pass |-> <<>>, err |-> FALSE]]

(* the auth field holds base64(username:password) *)
DecodeCredentials ==
    /\ last.op = "input"
    /\ LET encoded == EncodeToString(last.username \o Colon \o last.password)
       IN  last' = [last EXCEPT !.op = "credentials", !.encoded = encoded,
                                !.out = decodeDockerAuth(encoded)]
    /\ UNCHANGED <<config, cache, kubeClient>>

(* the auth field holds base64 of a text without a colon *)
DecodeBlob ==
    /\ last.op = "input"
    /\ LET encoded == EncodeToString(last.username \o last.username)
       IN  last' = [last EXCEPT !.op = "blob", !.encoded = encoded,
                                !.out = decodeDockerAuth(encoded)]
    /\ UNCHANGED <<config, cache, kubeClient>>

(* the auth field is cut short and is no base64 text *)
DecodeTruncated ==
    /\ last.op = "input"
    /\ LET whole == EncodeToString(last.username \o Colon \o last.password)
           encoded == SubSeq(whole, 1, Len(whole) - 1)
       IN  last' = [last EXCEPT !.op = "truncated", !.encoded = encoded,
                                !.out = decodeDockerAuth(encoded)]
    /\ UNCHANGED <<config, cache, kubeClient>>

NextDecode == DecodeCredentials \/ DecodeBlob \/ DecodeTruncated

SpecDecode == InitDecode /\ [][NextDecode]_vars

(* C24: decoding base64(username:password), the username holding no colon, *)
(* returns exactly that username and that password, also when the password *)
(* holds colons; a blob without a colon is an error.                       *)
C24_SplitAtFirstColon ==
    /\ last.op = "credentials" =>
          /\ ~last.out.err
          /\ last.out.user = last.username
          /\ last.out.pass = last.password
    /\ last.op = "blob" => last.out.err

(* a password with two colons comes back whole *)
C24_Witness ==
    /\ last.op = "credentials"
    /\ Cardinality({i \in 1..Len(last.password) : IsColon(last.password[i])}) >= 2
    /\ Len(last.username) > 0
    /\ last.out.pass = last.password

----------------------------------------------------------------------------
(* registry_auth.go on every namespace, pod spec and state of the API: one *)
(* call of GetRegistryHosts or of IsNamespaceDisabled in a fresh process   *)

MaxPullSecrets == 2

PodSecretRefs == {"", "regcred", "legacy", "broken", "hollow", "opaque", "missing"}

AccountNames == {"", "builder", "ghost"}

AuthNamespaces == {"", "team-a", "team-b", "quiet", "loud"}

PodSpecRefs ==
    {NilPodSpec}
    \cup [ImagePullSecrets : SeqsUpTo(PodSecretRefs, MaxPullSecrets), ServiceAccountName : AccountNames]

Clusters == [down : BOOLEAN, accounts : BOOLEAN, denied : {{}, {"regcred"}}]

MapOrders == {KeyOrder, Reverse(KeyOrder)}

NoHosts == [hosts |-> <<>>, nilHosts |-> FALSE, disabled |-> FALSE, trace |-> <<>>]

InitAuth ==
    /\ config = <<[Platform |-> "linux/arm64", Toleration |-> TolArm]>>
    /\ cache = EmptyCache
    /\ kubeClient = "uninit"
    /\ \E namespace \in AuthNamespaces, podSpec \in PodSpecRefs, cluster \in Clusters,
          initOutcome \in {"ok", "err"} :
          last = [op |-> "input", namespace |-> namespace, podSpec |-> podSpec,
                  cluster |-> cluster, initOutcome |-> initOutcome, out |-> NoHosts]

ResolveHosts(order) ==
    /\ last.op = "input"
    /\ LET r == GetRegistryHosts(last.cluster, order, kubeClient, last.initOutcome, <<>>,
                                 last.namespace, last.podSpec)
       IN  /\ kubeClient' = r.kubeClient
           /\ last' = [last EXCEPT !.op = "hosts",
                                   !.out = [NoHosts EXCEPT !.hosts = r.hosts,
                                                           !.nilHosts = r.nilHosts,
                                                           !.trace = r.trace]]
    /\ UNCHANGED <<config, cache>>

CheckNamespace ==
    /\ last.op = "input"
    /\ LET r == IsNamespaceDisabled(last.cluster, kubeClient, last.initOutcome, <<>>,
                                    last.namespace)
       IN  /\ kubeClient' = r.kubeClient
           /\ last' = [last EXCEPT !.op = "namespace",
                                   !.out = [NoHosts EXCEPT !.disabled = r.disabled,
                                                           !.trace = r.trace]]
    /\ UNCHANGED <<config, cache>>

NextAuth ==
    \/ \E order \in MapOrders : ResolveHosts(order)
    \/ CheckNamespace

SpecAuth == InitAuth /\ [][NextAuth]_vars

(* what the last call did: the API reads it made *)
ApiReads == {i \in 1..Len(last.out.trace) :
                last.out.trace[i].e \in {"ServiceAccounts.Get", "Secrets.Get", "Namespaces.Get"}}

AccountReads == {i \in ApiReads : last.out.trace[i].e = "ServiceAccounts.Get"}

SecretReads == {i \in ApiReads : last.out.trace[i].e = "Secrets.Get"}

Consulted == {last.out.trace[i].key : i \in SecretReads}

NoArguments == last.namespace = "" \/ IsNilPodSpec(last.podSpec)

(* C21, as stated: GetRegistryHosts returns nil when the namespace is      *)
(* empty, when podSpec is nil, or when the Kubernetes API is unreachable,  *)
(* and in the first two cases it makes no Kubernetes API call.             *)
C21_NilWhenUnreachable ==
    last.op = "hosts" =>
        /\ NoArguments => (last.out.nilHosts /\ ApiReads = {})
        /\ (last.initOutcome = "err" \/ last.cluster.down) => last.out.nilHosts

(* C21, amended: GetRegistryHosts returns nil when the namespace is empty  *)
(* or podSpec is nil, making no Kubernetes API call and not initialising   *)
(* the client, and when the client is unavailable; when the client is      *)
(* there and the API cannot be reached it returns no credentials: nil if   *)
(* the pod spec names no pull secret, an empty list otherwise.             *)
C21_NilWithoutClient ==
    last.op = "hosts" =>
        /\ NoArguments => (last.out.nilHosts /\ last.out.trace = <<>>)
        /\ (~NoArguments /\ last.initOutcome = "err") => (last.out.nilHosts /\ ApiReads = {})
        /\ (~NoArguments /\ last.initOutcome = "ok" /\ last.cluster.down) =>
              /\ last.out.hosts = <<>>
              /\ last.out.nilHosts <=> RefNames(last.podSpec.ImagePullSecrets) = {}

(* the API is down and the pod names a pull secret: the result is an empty *)
(* list, not nil                                                           *)
C21_Witness ==
    /\ last.op = "hosts"
    /\ ~NoArguments /\ last.initOutcome = "ok" /\ last.cluster.down
    /\ "regcred" \in Consulted
    /\ last.out.hosts = <<>> /\ ~last.out.nilHosts

(* the credentials each secret of team-a holds that can be decoded *)
Credentials ==
    [regcred |-> {[Name |-> "registry.example.com", User |-> UserU, Pass |-> PassP, Token |-> <<>>]},
     legacy  |-> {[Name |-> "ghcr.io", User |-> UserV, Pass |-> PassP \o Colon \o PassP,
                   Token |-> <<>>]},
     partial |-> {[Name |-> "ghcr.io", User |-> <<>>, Pass |-> <<>>, Token |-> TokenT],
                  [Name |-> "docker.io", User |-> UserU, Pass |-> PassP, Token |-> <<>>]},
     broken  |-> {},
     hollow  |-> {},
     opaque  |-> {}]

Readable(name) ==
    /\ ~last.cluster.down /\ name \notin last.cluster.denied
    /\ last.namespace = "team-a" /\ name \in DOMAIN Credentials

(* C22: a secret that cannot be read or decoded, or an entry that cannot   *)
(* be decoded, does not fail GetRegistryHosts: the result holds the        *)
(* credentials of every other secret and entry, and nothing else.          *)
C22_PartialFailureNotFatal ==
    last.op = "hosts" =>
        Range(last.out.hosts) = UNION {Credentials[n] : n \in {c \in Consulted : Readable(c)}}

(* secrets that cannot be read, decoded or used stand next to good ones *)
C22_Witness ==
    /\ last.op = "hosts"
    /\ {"broken", "missing", "partial", "regcred"} \subseteq Consulted
    /\ Cardinality(Range(last.out.hosts)) = 3

AccountQueried ==
    IF last.podSpec.ServiceAccountName = "" THEN "default" ELSE last.podSpec.ServiceAccountName

AccountReadable ==
    /\ ~last.cluster.down /\ last.cluster.accounts
    /\ last.namespace = "team-a" /\ AccountQueried \in DOMAIN ClusterServiceAccounts

(* C23: the secrets consulted are the names in podSpec.imagePullSecrets    *)
(* together with those of the service account, "default" when the pod spec *)
(* names none; each name is fetched once; without the service account the  *)
(* pod's own secrets are still used.                                       *)
C23_SecretsConsulted ==
    (last.op = "hosts" /\ ~NoArguments /\ last.initOutcome = "ok") =>
        /\ Cardinality(AccountReads) = 1
        /\ \A i \in AccountReads : /\ last.out.trace[i].name = AccountQueried
                                   /\ last.out.trace[i].key = last.namespace
        /\ Consulted = RefNames(last.podSpec.ImagePullSecrets)
                       \cup (IF AccountReadable
                             THEN RefNames(ClusterServiceAccounts[AccountQueried]) ELSE {})
        /\ \A i, j \in SecretReads : last.out.trace[i].key = last.out.trace[j].key => i = j

(* the pod and its service account name the same secret, and the service   *)
(* account of another pod cannot be read                                   *)
C23_Witness ==
    /\ last.op = "hosts" /\ ~NoArguments /\ last.initOutcome = "ok"
    /\ last.podSpec.ServiceAccountName = "" /\ AccountReadable
    /\ "regcred" \in RefNames(last.podSpec.ImagePullSecrets)
    /\ Consulted = {"regcred", "legacy"}

(* C28: IsNamespaceDisabled returns true only for a non-empty namespace    *)
(* that could be read, with a client, whose disabled annotation is exactly *)
(* "true"; in every other case it returns false.                           *)
C28_DisabledOnlyWhenAnnotated ==
    last.op = "namespace" =>
        (last.out.disabled <=>
            /\ last.namespace # ""
            /\ last.initOutcome = "ok"
            /\ ~last.cluster.down
            /\ last.namespace \in DOMAIN ClusterNamespaces
            /\ ClusterNamespaces[last.namespace] = "true")

(* the annotation is there with another spelling of true *)
C28_Witness ==
    /\ last.op = "namespace"
    /\ last.namespace = "loud" /\ last.initOutcome = "ok" /\ ~last.cluster.down
    /\ Len(last.out.trace) = 2
    /\ ~last.out.disabled

----------------------------------------------------------------------------
(* the namespace the registry credentials were looked up in: that of every *)
(* Kubernetes read of the request                                          *)
CredentialReads ==
    {i \in 1..Len(last.trace) : last.trace[i].e \in {"ServiceAccounts.Get", "Secrets.Get"}}

ReadNamespace(i) ==
    IF last.trace[i].e = "ServiceAccounts.Get" THEN last.trace[i].key
    ELSE last.trace[i].namespace

(* C25: registry credentials are resolved in the namespace of the          *)
(* admission request when it has one, and in the namespace of the embedded *)
(* object only when the request has none, for Pod and DaemonSet alike.     *)
C25_RequestNamespaceFirst ==
    (Handled /\ ~Malformed(last.body)) =>
        LET requested == last.body.request.Namespace
            embedded == last.body.request.Object.namespace
            expected == IF requested # "" THEN requested ELSE embedded
        IN  /\ \A i \in CredentialReads : ReadNamespace(i) = expected
            /\ (expected # "" /\ kubeClient = "ok") => CredentialReads # {}
            /\ expected = "" => CredentialReads = {}

(* request and object name different namespaces, and the secrets of the    *)
(* request's namespace are read                                            *)
C25_Witness ==
    /\ Handled /\ ~Malformed(last.body)
    /\ last.body.request.Kind = "DaemonSet"
    /\ last.body.request.Namespace = "team-a"
    /\ last.body.request.Object.namespace = "team-b"
    /\ \E i \in CredentialReads : last.trace[i].e = "Secrets.Get" /\ ReadNamespace(i) = "team-a"

----------------------------------------------------------------------------
(* config.go: loading the configuration from the environment *)

defaultPlatformTolerationMapping ==
    [Platform |-> "linux/arm64", Toleration |-> MultiarchToleration]

(* a validator that only fills in the default for an empty value *)
validateOperatorLenient(operator) == IF operator = "" THEN "Equal" ELSE operator

validateOperator(operator) ==
    IF operator = "" THEN "Equal"
    ELSE IF operator # "Equal" /\ operator # "Exists" THEN "Equal"
    ELSE operator

validateEffect(effect) ==
    IF effect = "" THEN "NoSchedule"
    ELSE IF effect # "NoSchedule" /\ effect # "PreferNoSchedule" /\ effect # "NoExecute"
    THEN "NoSchedule"
    ELSE effect

(* the environment: PLATFORM_TOLERATIONS unset, not JSON, or a JSON array  *)
(* of objects (a field that is absent decodes to ""), and the TOLERATION_* *)
(* variables ("" when unset)                                               *)
Unset == [set |-> FALSE, wellFormed |-> FALSE, mappings |-> <<>>]

NotJSON == [set |-> TRUE, wellFormed |-> FALSE, mappings |-> <<>>]

JSONArray(mappings) == [set |-> TRUE, wellFormed |-> TRUE, mappings |-> mappings]

LoadPlatformTolerationConfig(env) ==
    LET json == env.PLATFORM_TOLERATIONS
        fromJSON == IF json.set /\ json.wellFormed
                    THEN [i \in 1..Len(json.mappings) |->
                            [Platform |-> json.mappings[i].platform,
                             Toleration |-> Toleration(json.mappings[i].key,
                                                       json.mappings[i].value,
                                                       validateOperator(json.mappings[i].operator),
                                                       validateEffect(json.mappings[i].effect),
                                                       0)]]
                    ELSE <<>>
        platform == IF env.TOLERATION_PLATFORM = "" THEN "linux/arm64"
                    ELSE env.TOLERATION_PLATFORM
        simple == IF env.TOLERATION_KEY # ""
                  THEN <<[Platform |-> platform,
                          Toleration |-> Toleration(env.TOLERATION_KEY, env.TOLERATION_VALUE,
                                                    validateOperator(env.TOLERATION_OPERATOR),
                                                    validateEffect(env.TOLERATION_EFFECT), 0)]>>
                  ELSE <<>>
        mappings == fromJSON \o simple
    IN  IF Len(mappings) = 0 THEN <<defaultPlatformTolerationMapping>> ELSE mappings

MaxJSONMappings == 2

(* operator and effect as the settings may give them: left out, valid, *)
(* invalid, and one valid beside one invalid                           *)
OperatorsAndEffects ==
    {<<"", "">>, <<"Equal", "PreferNoSchedule">>, <<"Exists", "NoExecute">>,
     <<"In", "Bogus">>, <<"In", "NoExecute">>, <<"Exists", "Bogus">>}

JSONMappings ==
    {[platform |-> "linux/amd64", key |-> key, value |-> "amd64",
      operator |-> oe[1], effect |-> oe[2]] :
        key \in {"", "arch"}, oe \in OperatorsAndEffects}

Environments ==
    {[PLATFORM_TOLERATIONS |-> json, TOLERATION_KEY |-> key, TOLERATION_VALUE |-> "arm64",
      TOLERATION_OPERATOR |-> oe[1], TOLERATION_EFFECT |-> oe[2], TOLERATION_PLATFORM |-> platform] :
        json \in {Unset, NotJSON} \cup {JSONArray(ms) : ms \in SeqsUpTo(JSONMappings, MaxJSONMappings)},
        key \in {"", "arch"},
        oe \in {<<"", "">>, <<"In", "Bogus">>, <<"Exists", "NoExecute">>},
        platform \in {"", "linux/amd64"}}

(* the process starts: nothing is loaded yet *)
InitConfig ==
    /\ config = <<>>
    /\ cache = EmptyCache
    /\ kubeClient = "uninit"
    /\ \E env \in Environments : last = [op |-> "start", env |-> env]

(* main: platformConfig = LoadPlatformTolerationConfig() *)
Load ==
    /\ last.op = "start"
    /\ config' = LoadPlatformTolerationConfig(last.env)
    /\ last' = [last EXCEPT !.op = "loaded"]
    /\ UNCHANGED <<cache, kubeClient>>

NextConfig == Load

SpecConfig == InitConfig /\ [][NextConfig]_vars

Operators == {"Equal", "Exists"}

Effects == {"NoSchedule", "PreferNoSchedule", "NoExecute"}

(* the mappings that came from the JSON form *)
LoadedFromJSON ==
    IF last.env.PLATFORM_TOLERATIONS.set /\ last.env.PLATFORM_TOLERATIONS.wellFormed
    THEN last.env.PLATFORM_TOLERATIONS.mappings ELSE <<>>

(* C26: every mapping of a loaded configuration has operator Equal or      *)
(* Exists and effect NoSchedule, PreferNoSchedule or NoExecute: a valid    *)
(* value is kept, an empty or invalid operator becomes Equal and an empty  *)
(* or invalid effect NoSchedule, in the JSON form and in the simple form.  *)
C26_OperatorAndEffectValid ==
    last.op = "loaded" =>
        /\ \A i \in 1..Len(config) : /\ config[i].Toleration.Operator \in Operators
                                     /\ config[i].Toleration.Effect \in Effects
        /\ \A i \in 1..Len(LoadedFromJSON) :
              LET given == LoadedFromJSON[i]
              IN  /\ config[i].Toleration.Operator =
                        (IF given.operator \in Operators THEN given.operator ELSE "Equal")
                  /\ config[i].Toleration.Effect =
                        (IF given.effect \in Effects THEN given.effect ELSE "NoSchedule")
        /\ last.env.TOLERATION_KEY # "" =>
              LET simple == config[Len(config)].Toleration
              IN  /\ simple.Operator = (IF last.env.TOLERATION_OPERATOR \in Operators
                                        THEN last.env.TOLERATION_OPERATOR ELSE "Equal")
                  /\ simple.Effect = (IF last.env.TOLERATION_EFFECT \in Effects
                                      THEN last.env.TOLERATION_EFFECT ELSE "NoSchedule")

(* an invalid operator and effect in the JSON form and in the simple form *)
C26_Witness ==
    /\ last.op = "loaded"
    /\ Len(LoadedFromJSON) = 1
    /\ LoadedFromJSON[1].operator = "In" /\ LoadedFromJSON[1].effect = "Bogus"
    /\ last.env.TOLERATION_KEY # "" /\ last.env.TOLERATION_OPERATOR = "In"
    /\ Len(config) = 2
    /\ config[1].Toleration.Operator = "Equal" /\ config[2].Toleration.Effect = "NoSchedule"

(* C27: every mapping of a loaded configuration has a non-empty toleration *)
(* key, whatever PLATFORM_TOLERATIONS and the TOLERATION_* variables hold. *)
C27_KeyNonEmpty ==
    last.op = "loaded" => \A i \in 1..Len(config) : config[i].Toleration.Key # ""

----------------------------------------------------------------------------
(* Both cache backends, holding what the program stored and what it did    *)
(* not: lookups against a backend whose entry for one key is in some state *)

redisAddrDefault == "localhost:6379"

StaleKey == CacheKey("nginx:latest", "linux/arm64")

(* the in-memory cache with the key absent, stored, expired, or not a bool *)
InMemoryBackends ==
    {NewInMemoryCache(cacheSizeDefault)}
    \cup {[NewInMemoryCache(cacheSizeDefault) EXCEPT !.entries = [k \in {StaleKey} |-> entry]] :
            entry \in {[value |-> FALSE, ttl |-> cacheNegativeTTL, age |-> 0],
                       [value |-> FALSE, ttl |-> cacheFailureTTL, age |-> cacheFailureTTL],
                       [value |-> FALSE, ttl |-> cacheNegativeTTL, age |-> 0, typeName |-> "string"]}}

(* the Redis cache with the key absent, stored by this program, stored by  *)
(* another with other text, expired, and with the server out of reach      *)
RedisBackends ==
    {NewRedisCache(redisAddrDefault), [NewRedisCache(redisAddrDefault) EXCEPT !.reachable = FALSE]}
    \cup {[NewRedisCache(redisAddrDefault) EXCEPT !.entries = [k \in {StaleKey} |-> entry],
                                                  !.reachable = up] :
            entry \in {[raw |-> text, ttl |-> cacheNegativeTTL, age |-> 0] :
                          text \in {"0", "false", "no", "", "2"}}
                      \cup {[raw |-> "0", ttl |-> cacheFailureTTL, age |-> cacheFailureTTL]},
            up \in BOOLEAN}

InitBackends ==
    /\ config = <<[Platform |-> "linux/arm64", Toleration |-> TolArm]>>
    /\ cache \in InMemoryBackends \cup RedisBackends
    /\ kubeClient = "uninit"
    /\ last = [op |-> "boot", now |-> 0, lookups |-> 0, name |-> "", platform |-> "",
               val |-> FALSE, trace |-> <<>>, before |-> cache, written |-> NoWrites]

NextBackends == \E name \in Images, platform \in Platforms : Lookup(name, platform)

SpecBackends == InitBackends /\ [][NextBackends]_vars

(* the entry under the key of the last lookup could not be used: there was *)
(* none, it had expired, the server could not be asked, or what was stored *)
(* was no boolean                                                          *)
Unusable(c, key) ==
    \/ key \notin DOMAIN c.entries
    \/ c.entries[key].ttl > 0 /\ c.entries[key].age >= c.entries[key].ttl
    \/ IsRedisCache(c) /\ ~c.reachable
    \/ IsRedisCache(c) /\ c.entries[key].raw \notin {"1", "t", "T", "TRUE", "true", "True",
                                                     "0", "f", "F", "FALSE", "false", "False"}
    \/ ~IsRedisCache(c) /\ "typeName" \in DOMAIN c.entries[key]

(* C29: when the stored value is missing, expired, unreadable or not a     *)
(* boolean, Get reports not found, with either backend, and the lookup     *)
(* goes on as a cache miss: it inspects the manifest, stores the outcome   *)
(* and returns it.                                                         *)
C29_GetFailsClosed ==
    (LookedUp /\ Unusable(last.before, LookupKey)) =>
        /\ ~CacheGet(last.before, LookupKey).ok
        /\ Len(last.trace) = 3
        /\ last.trace[1] = [e |-> "cache.Get", key |-> LookupKey]
        /\ last.trace[2] = [e |-> "GetManifest", key |-> last.name]
        /\ last.trace[3].e = "cache.Set" /\ last.trace[3].key = LookupKey
        /\ last.val = (Finding(last.name, last.platform) = "supported")

(* Redis holds text that is no boolean where the registry says supported *)
C29_Witness ==
    /\ LookedUp /\ LookupKey = StaleKey
    /\ IsRedisCache(last.before) /\ last.before.reachable
    /\ StaleKey \in DOMAIN last.before.entries
    /\ last.before.entries[StaleKey].raw = "no"
    /\ last.val
    /\ cache.entries[StaleKey].raw = "1"

----------------------------------------------------------------------------
(* The order of the appended tolerations, over configurations that may map *)
(* one platform more than once                                             *)

MaxOrderMappings == 3

TolArmSoft == Toleration("arch", "arm64", "Equal", "PreferNoSchedule", 0)

OrderMappings == [Platform : Platforms, Toleration : {TolArm, TolAmd, TolArmSoft}]

OrderConfigs == {c \in SeqsUpTo(OrderMappings, MaxOrderMappings) : Len(c) >= 1}

InitOrder ==
    /\ config \in OrderConfigs
    /\ cache = EmptyCache
    /\ kubeClient = "uninit"
    /\ \E tolerations \in {<<>>, <<TolArm>>, <<TolDedicated>>}, supported \in SUBSET Platforms :
           last = Given(tolerations, ResolverOutput(config, supported))

NextOrder == PatchPod \/ PatchPodTemplate

SpecOrder == InitOrder /\ [][NextOrder]_vars

(* where a toleration stands among the appended ones *)
AppendedAt(t) == CHOOSE i \in 1..Len(Appended) : Appended[i] = t

(* the mappings of supported platforms *)
Matching == {i \in 1..Len(config) : Contains(last.supportedPlatforms, config[i].Platform)}

(* the mapping whose turn appended toleration t: the first matching one that carries it *)
AppendedBy(t) == CHOOSE i \in Matching :
                     /\ config[i].Toleration = t
                     /\ \A k \in Matching : config[k].Toleration = t => i <= k

(* the tolerations appended for platform p *)
AppendedFor(p) == {t \in Range(Appended) : config[AppendedBy(t)].Platform = p}

FirstAt(p) == CHOOSE i \in 1..Len(last.supportedPlatforms) :
                  /\ last.supportedPlatforms[i] = p
                  /\ \A k \in 1..(i - 1) : last.supportedPlatforms[k] # p

SupportedOrder ==
    \A p, q \in Range(last.supportedPlatforms) :
        (p # q /\ FirstAt(p) < FirstAt(q)) =>
            \A tp \in AppendedFor(p), tq \in AppendedFor(q) : AppendedAt(tp) < AppendedAt(tq)

(* no platform is mapped again behind a mapping of another platform *)
MappedTogether ==
    \A i, k \in 1..Len(config) :
        (i < k /\ config[i].Platform = config[k].Platform) =>
            \A j \in i..k : config[j].Platform = config[i].Platform

(* C30 as stated: if platform p precedes platform q in the supported-      *)
(* platform sequence, every toleration appended for p stands before every  *)
(* toleration appended for q.                                              *)
C30_SupportedPlatformOrder == (Patched /\ last.applied = 1) => SupportedOrder

(* C30 amended: the appended tolerations stand in the order of the         *)
(* mappings that appended them; that is the supported-platform order when  *)
(* no platform is mapped again behind another platform's mapping.          *)
C30_MappingOrder ==
    (Patched /\ last.applied = 1) =>
        /\ \A a, b \in Range(Appended) :
               AppendedBy(a) < AppendedBy(b) => AppendedAt(a) < AppendedAt(b)
        /\ MappedTogether => SupportedOrder

(* one platform mapped on both sides of another, all three appended *)
C30_Witness ==
    /\ Patched /\ last.applied = 1
    /\ GetPlatforms(config) = <<"linux/arm64", "linux/amd64", "linux/arm64">>
    /\ last.supportedPlatforms = GetPlatforms(config)
    /\ Appended = <<TolArm, TolAmd, TolArmSoft>>

----------------------------------------------------------------------------
(* The order of the lookups of one request *)

(* the containers of the submitted workload in the order the resolver takes them *)
SubmittedContainers ==
    SubmittedSpec.containers \o SubmittedSpec.initContainers \o SubmittedSpec.ephemeralContainers

(* the lookups from call k on are those of a resolver that stands at       *)
(* configured platform j and container i, leaves a platform at the first   *)
(* false and starts the next platform at the first container               *)
RECURSIVE LeavesFrom(_, _, _, _, _)
LeavesFrom(calls, containers, k, j, i) ==
    IF j > Len(config) THEN k = Len(calls) + 1
    ELSE IF i > Len(containers) THEN LeavesFrom(calls, containers, k, j + 1, 1)
    ELSE /\ k <= Len(calls)
         /\ calls[k].image = containers[i].image
         /\ calls[k].platform = config[j].Platform
         /\ IF calls[k].result THEN LeavesFrom(calls, containers, k + 1, j, i + 1)
            ELSE LeavesFrom(calls, containers, k + 1, j + 1, 1)

LeavesAtFirstFailure(k, j, i) == LeavesFrom(last.calls, SubmittedContainers, k, j, i)

CacheReads == SelectSeq(last.trace, LAMBDA ev : ev.e = "cache.Get")

(* C31: for each configured platform the containers are checked in order   *)
(* and checking stops at the first container whose image lacks support:    *)
(* the remaining containers get no cache read and no inspection for that   *)
(* platform, and the next configured platform starts at the first          *)
(* container again.                                                        *)
C31_StopsAtFirstFailure ==
    (Handled /\ last.resolved) =>
        /\ LeavesAtFirstFailure(1, 1, 1)
        /\ Len(CacheReads) = Len(last.calls)
        /\ \A k \in 1..Len(last.calls) :
               CacheReads[k].key = CacheKey(last.calls[k].image, last.calls[k].platform)
        /\ \A t \in 1..Len(last.trace) :
               last.trace[t].e = "GetManifest" =>
                   /\ t > 1 /\ last.trace[t - 1].e = "cache.Get"
                   /\ \E p \in Range(GetPlatforms(config)) :
                          last.trace[t - 1].key = CacheKey(last.trace[t].key, p)

(* the first of two containers lacks the first of two platforms: one       *)
(* lookup for that platform, two for the next                              *)
C31_Witness ==
    /\ Handled /\ last.resolved
    /\ Len(SubmittedContainers) = 2
    /\ GetPlatforms(config) = <<"linux/amd64", "linux/arm64">>
    /\ Len(last.calls) = 3
    /\ ~last.calls[1].result
    /\ last.calls[2].image = SubmittedContainers[1].image
    /\ last.calls[3].image = SubmittedContainers[2].image
    /\ last.calls[3].result

----------------------------------------------------------------------------
(* Concurrent lookups of one pair.  Each request runs the steps of         *)
(* DoesImageSupportPlatform one at a time: cache.Get, GetManifest,         *)
(* cache.Set.  Between the steps of one request the other requests move,   *)
(* the registry goes out of reach and comes back, the context of a request *)
(* is cancelled or runs out, and time passes.  The image is one the        *)
(* registry serves only to a caller that presents its credentials, which   *)
(* the pull secret of namespace team-a holds and namespace team-b lacks.   *)

NumRequests == 2

Requests == 1..NumRequests

PrivateImage == "registry.example.com/app:v1"

PrivateRegistry ==
    [img \in {PrivateImage} |->
        [kind |-> "list", platforms |-> {"linux/arm64"},
         host |-> "registry.example.com", user |-> UserU, pass |-> PassP]]

RacePlatform == "linux/arm64"

RaceKey == CacheKey(PrivateImage, RacePlatform)

(* a GetManifest that goes on although its context is done *)
GetManifestIgnoringContext(ctx, reachable, name, hosts) ==
    IF ~reachable THEN [err |-> TRUE, platforms |-> {}]
    ELSE IF name \in DOMAIN PrivateRegistry
    THEN IF \E i \in 1..Len(hosts) : /\ hosts[i].Name = PrivateRegistry[name].host
                                     /\ hosts[i].User = PrivateRegistry[name].user
                                     /\ hosts[i].Pass = PrivateRegistry[name].pass
         THEN [err |-> FALSE, platforms |-> PrivateRegistry[name].platforms]
         ELSE [err |-> TRUE, platforms |-> {}]
    ELSE GetManifest(name, hosts)

(* GetManifest under a context and with the registry within reach or not:  *)
(* rc.ManifestGet fails when the context is done, when the registry does   *)
(* not answer, and when the registry refuses the caller                    *)
GetManifestDuring(ctx, reachable, name, hosts) ==
    IF ctx # "live" \/ ~reachable THEN [err |-> TRUE, platforms |-> {}]
    ELSE IF name \in DOMAIN PrivateRegistry
    THEN IF \E i \in 1..Len(hosts) : /\ hosts[i].Name = PrivateRegistry[name].host
                                     /\ hosts[i].User = PrivateRegistry[name].user
                                     /\ hosts[i].Pass = PrivateRegistry[name].pass
         THEN [err |-> FALSE, platforms |-> PrivateRegistry[name].platforms]
         ELSE [err |-> TRUE, platforms |-> {}]
    ELSE GetManifest(name, hosts)

NoEntry == [value |-> FALSE, ttl |-> 0, age |-> 0, present |-> FALSE]

(* the entry under the key as a request finds it *)
EntryOf(c, key) ==
    IF key \in DOMAIN c.entries
    THEN [value |-> c.entries[key].value, ttl |-> c.entries[key].ttl,
          age |-> c.entries[key].age, present |-> TRUE]
    ELSE NoEntry

Waiting ==
    [pc |-> "idle", namespace |-> "", hosts |-> <<>>, ctx |-> "live", saw |-> NoEntry,
     read |-> [val |-> FALSE, ok |-> FALSE], inspected |-> FALSE, m |-> [err |-> FALSE, platforms |-> {}],
     reachable |-> TRUE, wrote |-> [val |-> FALSE, ttl |-> 0], wroteAt |-> 0, readBack |-> [val |-> FALSE, ok |-> FALSE],
     val |-> FALSE]

RaceClock == {registryRequestTimeout, cacheFailureTTL, cacheSuccessTTL}

InitRace ==
    /\ config = <<[Platform |-> RacePlatform, Toleration |-> TolArm]>>
    /\ cache = EmptyCache
    /\ kubeClient = "uninit"
    /\ last = [op |-> "boot", now |-> 0, reachable |-> TRUE, hadOutage |-> FALSE, writer |-> 0,
               reqs |-> [r \in Requests |-> Waiting]]

(* a request for a workload of the namespace arrives; its registry hosts   *)
(* are resolved                                                            *)
Arrive(r, namespace) ==
    /\ last.reqs[r].pc = "idle"
    /\ \A q \in 1..(r - 1) : last.reqs[q].pc # "idle"
    /\ \E rh \in {GetRegistryHosts(HealthyCluster, KeyOrder, kubeClient, "ok", <<>>, namespace,
                                   UnmarshalPodSpec(EmptyPodSpecJSON))} :
           /\ kubeClient' = rh.kubeClient
           /\ last' = [last EXCEPT !.op = "arrive",
                                   !.reqs[r] = [@ EXCEPT !.pc = "get", !.namespace = namespace,
                                                         !.hosts = rh.hosts]]
    /\ UNCHANGED <<config, cache>>

(* cache.Get: a hit returns what was found *)
RaceGet(r) ==
    /\ last.reqs[r].pc = "get"
    /\ \E got \in {CacheGet(cache, RaceKey)} :
           last' = [last EXCEPT !.op = "get",
                                !.reqs[r] = [@ EXCEPT !.pc = IF got.ok THEN "done" ELSE "inspect",
                                                      !.saw = EntryOf(cache, RaceKey),
                                                      !.read = got,
                                                      !.val = got.ok /\ got.val]]
    /\ UNCHANGED <<config, cache, kubeClient>>

(* GetManifest returns *)
RaceInspect(r) ==
    /\ last.reqs[r].pc = "inspect"
    /\ last' = [last EXCEPT !.op = "inspect",
                            !.reqs[r] = [@ EXCEPT !.pc = "set", !.inspected = TRUE,
                                                  !.reachable = last.reachable,
                                                  !.m = GetManifestDuring(
                                                            last.reqs[r].ctx, last.reachable,
                                                            PrivateImage, last.reqs[r].hosts)]]
    /\ UNCHANGED <<config, cache, kubeClient>>

(* cache.Set of the verdict, which is returned *)
RaceSet(r) ==
    /\ last.reqs[r].pc = "set"
    /\ \E out \in {Verdict(last.reqs[r].m, RacePlatform)} :
       \E after \in {CacheSet(cache, RaceKey, out.val, out.ttl)} :
           /\ cache' = after
           /\ last' = [last EXCEPT !.op = "set", !.writer = r,
                                   !.reqs[r] = [@ EXCEPT !.pc = "done", !.wrote = out,
                                                         !.wroteAt = last.now,
                                                         !.readBack = CacheGet(after, RaceKey),
                                                         !.val = out.val]]
    /\ UNCHANGED <<config, kubeClient>>

(* the context of a request is done while its inspection is under way: the *)
(* client went away, or a deadline passed; one request of a run at most   *)
RaceCancel(r, why) ==
    /\ last.reqs[r].pc = "inspect"
    /\ \A q \in Requests : last.reqs[q].ctx = "live"
    /\ last' = [last EXCEPT !.op = "cancel", !.reqs[r].ctx = why]
    /\ UNCHANGED <<config, cache, kubeClient>>

Outage ==
    /\ last.reachable /\ ~last.hadOutage
    /\ last' = [last EXCEPT !.op = "outage", !.reachable = FALSE, !.hadOutage = TRUE]
    /\ UNCHANGED <<config, cache, kubeClient>>

Recover ==
    /\ ~last.reachable
    /\ last' = [last EXCEPT !.op = "recover", !.reachable = TRUE]
    /\ UNCHANGED <<config, cache, kubeClient>>

Elapse(t) ==
    /\ last.now < t
    /\ cache' = CacheAfter(cache, t - last.now)
    /\ last' = [last EXCEPT !.op = "elapse", !.now = t]
    /\ UNCHANGED <<config, kubeClient>>

NextRace ==
    \/ \E r \in Requests, namespace \in {"team-a", "team-b"} : Arrive(r, namespace)
    \/ \E r \in Requests : RaceGet(r)
    \/ \E r \in Requests : RaceInspect(r)
    \/ \E r \in Requests : RaceSet(r)
    \/ \E r \in Requests, why \in {"canceled", "deadline"} : RaceCancel(r, why)
    \/ Outage
    \/ Recover
    \/ \E t \in RaceClock : Elapse(t)

SpecRace == InitRace /\ [][NextRace]_vars

Req(r) == last.reqs[r]

Done(r) == Req(r).pc = "done"

(* the inspection of the request found the platform in the manifest list *)
InspectedSupported(r) ==
    Req(r).inspected /\ ~Req(r).m.err /\ RacePlatform \in Req(r).m.platforms

(* C32: requests that miss the cache for the same key each inspect for     *)
(* themselves; the decision of a request is the value it read from the     *)
(* cache or the outcome of its own inspection, and it is true only if one  *)
(* of the two reported support.                                            *)
C32_OwnReadOrOwnInspection ==
    \A r \in Requests :
        Done(r) =>
            /\ ~Req(r).read.ok => Req(r).inspected
            /\ Req(r).read.ok => (~Req(r).inspected /\ Req(r).val = Req(r).read.val)
            /\ Req(r).inspected => Req(r).val = InspectedSupported(r)
            /\ Req(r).val => ((Req(r).read.ok /\ Req(r).read.val) \/ InspectedSupported(r))

(* two requests missed the same key, both inspected, and their inspections *)
(* differed                                                                *)
C32_Witness ==
    /\ \A r \in Requests : Done(r) /\ ~Req(r).saw.present /\ Req(r).inspected
    /\ \E r, q \in Requests : Req(r).val /\ ~Req(q).val

(* the request found the result of a failed inspection under the key *)
SawFailure(r) ==
    Req(r).saw.present /\ ~Req(r).saw.value /\ Req(r).saw.ttl = cacheFailureTTL

(* the inspection of the request met the registry within reach, with a     *)
(* live context and the credentials of the image                           *)
InspectedInCalm(r) ==
    Req(r).inspected /\ Req(r).reachable /\ Req(r).ctx = "live" /\ Req(r).namespace = "team-a"

(* C33: a failed inspection is kept for the short failure TTL and no       *)
(* longer.  A lookup that finds it within that TTL returns false without   *)
(* inspecting; a lookup that finds it once the TTL has elapsed inspects    *)
(* again and returns true if the registry now answers that the image       *)
(* supports the platform.                                                  *)
C33_OutageForgotten ==
    \A r \in Requests :
        Done(r) =>
            /\ (Req(r).inspected /\ Req(r).m.err) =>
                   Req(r).wrote = [val |-> FALSE, ttl |-> cacheFailureTTL]
            /\ (SawFailure(r) /\ Req(r).saw.age < cacheFailureTTL) =>
                   (Req(r).read.ok /\ ~Req(r).val /\ ~Req(r).inspected)
            /\ (SawFailure(r) /\ Req(r).saw.age >= cacheFailureTTL) =>
                   /\ Req(r).inspected
                   /\ InspectedInCalm(r) => Req(r).val

(* one request inspected during the outage; the other came after the       *)
(* outage and after the failure TTL, inspected and returned true           *)
C33_Witness ==
    \E r, q \in Requests :
        /\ Done(r) /\ Req(r).inspected /\ ~Req(r).reachable
        /\ Req(r).ctx = "live" /\ Req(r).namespace = "team-a"
        /\ Done(q) /\ SawFailure(q) /\ Req(q).saw.age >= cacheFailureTTL
        /\ InspectedInCalm(q) /\ Req(q).val

(* no outage has happened and no request's context has ended *)
Calm ==
    ~last.hadOutage /\ \A q \in Requests : Req(q).ctx = "live"

(* every request that has arrived came from the namespace that holds the   *)
(* credentials of the image                                                *)
OnlyCredentialed ==
    \A q \in Requests : Req(q).pc # "idle" => Req(q).namespace = "team-a"

(* the decision a request of the credentialed namespace gets when no       *)
(* request of another namespace has looked the pair up: true               *)
C34_Baseline ==
    (Calm /\ OnlyCredentialed) =>
        \A r \in Requests : Done(r) => Req(r).val

(* C34: the decision returned to a request whose namespace holds valid     *)
(* credentials is the same whether or not a request of a namespace without *)
(* credentials looked the same pair up earlier: it is the decision of      *)
(* C34_Baseline, true.                                                     *)
C34_DecisionIgnoresOtherNamespaces ==
    Calm =>
        \A r \in Requests :
            (Done(r) /\ Req(r).namespace = "team-a") => Req(r).val

(* the request inspected, found the platform and wrote true, and the long  *)
(* TTL has not elapsed since                                               *)
WroteSupported(r) ==
    /\ Done(r) /\ Req(r).inspected
    /\ Req(r).wrote = [val |-> TRUE, ttl |-> cacheSuccessTTL]
    /\ last.now - Req(r).wroteAt < cacheSuccessTTL

(* a confirmed-supported entry stays true until its long TTL elapses,      *)
(* whatever the lookups running beside its writer do                       *)
C35_SupportedEntryKept ==
    \A r \in Requests :
        WroteSupported(r) =>
            (EntryOf(cache, RaceKey).present /\ EntryOf(cache, RaceKey).value)

(* C35: Set is unconditional, so the key holds the result of the lookup    *)
(* that wrote last until the TTL of that result elapses: a supported entry *)
(* stays true only as long as no lookup that missed before it was written  *)
(* writes its own result after it.                                         *)
C35_LastWriteWins ==
    last.writer \in Requests =>
        (last.now - Req(last.writer).wroteAt < Req(last.writer).wrote.ttl =>
            /\ EntryOf(cache, RaceKey).present
            /\ EntryOf(cache, RaceKey).value = Req(last.writer).wrote.val
            /\ EntryOf(cache, RaceKey).ttl = Req(last.writer).wrote.ttl
            /\ EntryOf(cache, RaceKey).age = last.now - Req(last.writer).wroteAt)

(* a lookup wrote true, and a lookup that had missed beside it wrote false *)
(* afterwards, within the long TTL of the first                            *)
C35_Witness ==
    \E r, q \in Requests :
        /\ WroteSupported(r)
        /\ q # r /\ last.writer = q /\ Done(q) /\ Req(q).inspected
        /\ ~Req(q).saw.present /\ ~Req(q).wrote.val
        /\ EntryOf(cache, RaceKey).present /\ ~EntryOf(cache, RaceKey).value

(* the context of the request ended while its inspection was under way *)
CutShort(r) ==
    Done(r) /\ Req(r).inspected /\ Req(r).ctx \in {"canceled", "deadline"}

(* C36: when the context of a request is cancelled or times out during the *)
(* manifest inspection, the lookup returns false and leaves false under    *)
(* the key with the short failure TTL; a request that finds that entry     *)
(* within the TTL gets false without inspecting.                           *)
C36_CancelledLookupFailsShort ==
    /\ \A r \in Requests :
           CutShort(r) =>
               /\ Req(r).m.err
               /\ ~Req(r).val
               /\ Req(r).wrote = [val |-> FALSE, ttl |-> cacheFailureTTL]
               /\ Req(r).readBack = [val |-> FALSE, ok |-> TRUE]
    /\ \A q \in Requests :
           (Done(q) /\ SawFailure(q) /\ Req(q).saw.age < cacheFailureTTL) =>
               (~Req(q).inspected /\ ~Req(q).val /\ Req(q).read = [val |-> FALSE, ok |-> TRUE])

(* a request with credentials, cut short while the registry was within     *)
(* reach, wrote last; the other request then read false and did not inspect *)
C36_Witness ==
    \E r, q \in Requests :
        /\ CutShort(r) /\ Req(r).reachable /\ Req(r).namespace = "team-a"
        /\ Req(r).readBack = [val |-> FALSE, ok |-> TRUE]
        /\ q # r /\ Done(q) /\ SawFailure(q) /\ ~Req(q).inspected /\ ~Req(q).val
        /\ ~last.hadOutage /\ Req(q).namespace = "team-a" /\ last.writer = r

----------------------------------------------------------------------------
(* A workload without containers *)

(* the tolerations of all configured mappings, as the patch carries them *)
MappedAtAll == {MarshalToleration(config[i].Toleration) : i \in 1..Len(config)}

(* C37: for a workload with no regular, init or ephemeral container every  *)
(* configured platform is reported supported, without a cache read or a    *)
(* manifest inspection, and the response patches in the tolerations of all *)
(* configured mappings.                                                    *)
C37_NoContainersAllPlatforms ==
    (Handled /\ last.resolved /\ Len(SubmittedContainers) = 0) =>
        /\ last.supportedPlatforms = GetPlatforms(config)
        /\ Len(last.calls) = 0
        /\ ~Did("cache.Get") /\ ~Did("GetManifest")
        /\ (Returned /\ Len(config) > 0) =>
               /\ Response.HasPatch
               /\ Range(AddedAt(Response.Patch, TolerationsPath))
                      = MappedAtAll \ Range(SubmittedSpec.tolerations)

(* a DaemonSet without containers under two mappings gets both tolerations *)
C37_Witness ==
    /\ Returned /\ last.resolved
    /\ last.body.request.Kind = "DaemonSet"
    /\ Len(SubmittedContainers) = 0
    /\ Len(config) = 2
    /\ Len(last.supportedPlatforms) = 2
    /\ Cardinality(Range(AddedAt(Response.Patch, TolerationsPath))) = 2

----------------------------------------------------------------------------
(* The frame of the patch *)

(* C38: the returned patch changes nothing but the toleration list: no     *)
(* operation adds, removes or replaces a path other than spec.tolerations  *)
(* of a Pod, or spec.template.spec.tolerations of a DaemonSet.             *)
C38_OnlyTolerationsPath ==
    (Returned /\ Response.HasPatch) =>
        \A k \in 1..Len(Response.Patch) : Response.Patch[k].path = TolerationsPath

----------------------------------------------------------------------------
(* Admission requests while the cache backend cannot be reached *)

(* a Redis server that does not answer; what it holds, if anything, is not *)
(* what the registry says                                                  *)
DownBackends ==
    {[NewRedisCache(redisAddrDefault) EXCEPT !.reachable = FALSE],
     [NewRedisCache(redisAddrDefault) EXCEPT
         !.reachable = FALSE,
         !.entries = [k \in {CacheKey("legacy:1", "linux/arm64"), CacheKey("nginx:latest", "linux/amd64")} |->
                         [raw |-> IF k = CacheKey("legacy:1", "linux/arm64") THEN "1" ELSE "0",
                          ttl |-> cacheNegativeTTL, age |-> 0]]]}

InitCacheDown ==
    /\ config \in Configs
    /\ cache \in DownBackends
    /\ kubeClient = "uninit"
    /\ last = Idle

SpecCacheDown == InitCacheDown /\ [][Next]_vars

ManifestReads == Inspections(last.trace)

CacheWrites == Sets(last.trace)

(* C39: a cache backend that fails never fails a request.  Every Get is a  *)
(* miss, every Set is lost without an error, and the request returns the   *)
(* decision of its own inspections: each lookup inspects and returns what  *)
(* the registry says, and a platform is supported exactly when the         *)
(* registry says so for every image of the workload.                       *)
C39_CacheFailureNotFatal ==
    /\ cache \in DownBackends
    /\ (Handled /\ last.resolved) =>
           /\ Len(ManifestReads) = Len(last.calls)
           /\ Len(CacheWrites) = Len(last.calls)
           /\ \A k \in 1..Len(last.calls) :
                  /\ ManifestReads[k].key = last.calls[k].image
                  /\ last.calls[k].result
                         = (Finding(last.calls[k].image, last.calls[k].platform) = "supported")
           /\ \A p \in Range(GetPlatforms(config)) :
                  Contains(last.supportedPlatforms, p)
                      <=> \A img \in SubmittedImages : Finding(img, p) = "supported"
           /\ last.fault = "none" => (Returned /\ Response.Allowed)

(* the server holds a false for a pair the registry supports and does not  *)
(* answer: the request inspects, tries to store and patches                *)
C39_Witness ==
    /\ Handled /\ last.resolved /\ Returned
    /\ CacheKey("nginx:latest", "linux/amd64") \in DOMAIN cache.entries
    /\ [image |-> "nginx:latest", platform |-> "linux/amd64", result |-> TRUE] \in Range(last.calls)
    /\ Len(CacheWrites) > 0
    /\ Contains(last.supportedPlatforms, "linux/amd64")
    /\ Response.HasPatch

----------------------------------------------------------------------------
(* The cache key as a string.  An image reference and a platform are given *)
(* by their parts, ":" being a part of its own, so that a formula can tell *)
(* whether a string holds a colon; the program sees the joined text only.  *)

RECURSIVE Text(_)
Text(parts) == IF Len(parts) = 0 THEN "" ELSE Head(parts) \o Text(Tail(parts))

KeyImages == {<<"nginx">>, <<"nginx", ":", "latest">>, <<"armapp", ":", "v1">>}

(* TOLERATION_PLATFORM and the "platform" member of PLATFORM_TOLERATIONS   *)
(* are taken as they are                                                   *)
KeyPlatforms == {<<"linux/arm64">>, <<"linux/amd64">>, <<"latest", ":", "linux/arm64">>}

KeyPairs == KeyImages \X KeyPlatforms

NextKeys == \E img \in KeyImages, plat \in KeyPlatforms : Lookup(Text(img), Text(plat))

SpecKeys == InitCache /\ [][NextKeys]_vars

KeyOf(pair) == CacheKey(Text(pair[1]), Text(pair[2]))

SamePair(a, b) == Text(a[1]) = Text(b[1]) /\ Text(a[2]) = Text(b[2])

ColonFree(platform) ==
    \A plat \in KeyPlatforms : Text(plat) = platform => ":" \notin Range(plat)

(* the last lookup returned what the cache held, without inspecting *)
ServedFromCache == LookedUp /\ Len(Inspections(last.trace)) = 0

(* the lookup that wrote the entry the last lookup was served *)
Writer == last.written[CacheKey(last.name, last.platform)]

(* two different pairs never have the same key, and a lookup is never      *)
(* served the result of a lookup for another pair                          *)
C40_KeysNeverShared ==
    /\ \A a, b \in KeyPairs : KeyOf(a) = KeyOf(b) => SamePair(a, b)
    /\ ServedFromCache => (Writer.name = last.name /\ Writer.platform = last.platform)

(* C40: two different (image reference, platform) pairs whose platforms    *)
(* hold no colon never have the same key, and among lookups for such       *)
(* platforms none is served the result of a lookup for another pair.  A    *)
(* platform is configured text: with a colon in it, its key can be the key *)
(* of another pair.                                                        *)
C40_ColonFreeKeysDistinct ==
    /\ \A a, b \in KeyPairs :
           (":" \notin Range(a[2]) /\ ":" \notin Range(b[2]) /\ KeyOf(a) = KeyOf(b)) => SamePair(a, b)
    /\ (ServedFromCache /\ ColonFree(last.platform) /\ ColonFree(Writer.platform)) =>
           (Writer.name = last.name /\ Writer.platform = last.platform)

(* lookups for two images and the same platform, then one of them again:   *)
(* it is served its own result                                             *)
C40_Witness ==
    /\ ServedFromCache
    /\ last.name = "nginx:latest" /\ last.platform = "linux/arm64"
    /\ last.val
    /\ CacheKey("armapp:v1", "linux/arm64") \in DOMAIN last.before.entries
    /\ Writer.name = "nginx:latest"

====
